---- MODULE Spec2Model ----
(***************************************************************************)
(* RecordRoute: the chunker (crates/llm/src/chunking.rs), the map-reduce   *)
(* summarizer (crates/llm/src/summarize.rs), the vector index and search   *)
(* engine (crates/vector/src/engine.rs, types.rs), the history store       *)
(* (crates/server/src/history.rs), the job registry (job_manager.rs) and   *)
(* the workflow (workflow.rs, routes/process.rs), and the Ollama client    *)
(* (crates/llm/src/client.rs).                                             *)
(*                                                                         *)
(* Each component has its own specification over the shared variables:     *)
(*   SpecChunk / FairSpecChunk   one call of chunk_text                    *)
(*   SpecSumm                    one call of Summarizer::summarize         *)
(*   SpecVec                     a VectorSearchEngine under its callers    *)
(*   SpecOpen                    VectorSearchEngine::new across restarts   *)
(*   SpecHist                    a HistoryManager under its callers        *)
(*   SpecConc                    workflows updating the shared history     *)
(*   SpecWf                      POST /process, execute() and POST /cancel *)
(*   SpecRuns                    consecutive POST /process for one upload  *)
(*   SpecRetry                   one call of OllamaClient::generate/embed  *)
(***************************************************************************)
EXTENDS Integers, Sequences, FiniteSets, TLC

VARIABLES
    \* ---- chunk_text(text, max_tokens, overlap) ----
    text,         \* the input string, as its sequence of UTF-8 bytes
    max_tokens,   \* argument
    overlap,      \* argument
    start,        \* `let mut start`
    chunks,       \* `let mut chunks`: sequence of TextChunk
    cpc,          \* position: "call", "loop", "done", "panic", "oom"
    \* ---- Summarizer::summarize(text) ----
    s_text_len,       \* text.len() of the text to summarize
    s_nchunks,        \* chunks.len() of the list chunk_text returned, else 0
    chunk_summaries,  \* `let mut chunk_summaries`
    batch_summaries,  \* `let mut batch_summaries` of batch_reduce
    final_text,       \* `final_text` / `full_summary`
    calls,            \* the generation requests sent so far, in order
    sresult,          \* what summarize returned
    spc,              \* position: "call", "direct", "map", "reduce", "batch",
                      \* "batch_final", "one_line", "done"
    \* ---- VectorSearchEngine ----
    entries,          \* index.entries: doc_id -> VectorEntry (in memory)
    index_file,       \* the file at index_path
    embedding_files,  \* the files of embedding_dir: doc_id -> content
    embedding_dir,    \* whether embedding_dir exists
    ncalls,           \* add_document and delete_document calls made so far
    vret,             \* what the last step of a call returned
    \* ---- VectorSearchEngine::new over a persisted index ----
    engine,           \* the running engine: its embedding_model and index
    disk_index,       \* the VectorIndex persisted at index_path
    disk_embeddings,  \* doc_id -> the vector file under embedding_dir
    last_embed,       \* the last LlmClient::embed request: caller and model
    \* ---- HistoryManager ----
    records,          \* self.records: Vec<HistoryRecord>
    history_file,     \* the file at self.file_path
    hm,               \* "unloaded", "loaded", or "load_err" (load returned Err)
    hret,             \* what the last call returned
    \* ---- workflows sharing Arc<RwLock<HistoryManager>> ----
    hlock,            \* the RwLock: "free" or the workflow holding write()
    workers,          \* per workflow: position, id, serialized data, calls left
    applied,          \* the <<id, flag>> of every update_fn that ran
    last_write,       \* how the last fs::write of the history file ended
    \* ---- POST /process: JobManager and WorkflowExecutor::execute ----
    task,             \* the TaskInfo of the request's task in JobManager
    wf,               \* execute(): position, options, `result`, return
    wfiles,           \* whisper_output/<uuid>.txt and <uuid>_summary.txt
    indexed,          \* whether add_document has indexed the file
    progress_log,     \* the progress values execute() has written, in order
    cancelled_at,     \* where execute() was when cancel_task first ran
    run,              \* the current request: its number, the calls execute()
                      \* has made, and the store and files when it began
    \* ---- OllamaClient::generate and OllamaClient::embed ----
    ollama,           \* the call: position, attempt, results, sleeps, return
    \* ---- JobManager: the registry under calls with any task_id ----
    tasks,            \* self.tasks: task_id -> TaskInfo, NoTask when absent
    jret,             \* the last JobManager call: op, task_id, what it returned
    \* ---- postprocess.rs: remove_word_repetitions ----
    pp,               \* the call: position, words, cleaned_words, returned words
    \* ---- workflows and /reset requests on one file id ----
    rst,              \* the record, the index, the history lock, each request
    \* ---- add_document calls for one doc_id at the same time ----
    cadd              \* the embedding file, the index, its file, each call

chunkVars == <<text, max_tokens, overlap, start, chunks, cpc>>
vecVars == <<entries, index_file, embedding_files, embedding_dir, ncalls,
             vret>>
summVars == <<s_text_len, s_nchunks, chunk_summaries, batch_summaries,
              final_text, calls, sresult, spc>>

openVars == <<engine, disk_index, disk_embeddings, last_embed>>
histVars == <<records, history_file, hm, hret>>
concVars == <<hlock, workers, applied, last_write>>
wfVars == <<task, wf, wfiles, indexed, progress_log, cancelled_at, run>>
retryVars == <<ollama>>
jobVars == <<tasks, jret>>
ppVars == <<pp>>
rstVars == <<rst>>
caddVars == <<cadd>>
moreVars == <<jobVars, ppVars, rstVars, caddVars>>
serverVars == <<openVars, histVars, concVars, wfVars, retryVars, moreVars>>

\* What each component's actions leave alone.
openOther == <<chunkVars, summVars, vecVars, histVars, concVars, wfVars,
               retryVars, moreVars>>
histOther == <<chunkVars, summVars, vecVars, openVars, concVars, wfVars,
               retryVars, moreVars>>
concOther == <<chunkVars, summVars, vecVars, openVars, hm, hret, wfVars,
               retryVars, moreVars>>
wfOther == <<chunkVars, summVars, vecVars, openVars, hm, hret, concVars,
             retryVars, moreVars>>
retryOther == <<chunkVars, summVars, vecVars, openVars, histVars, concVars,
                wfVars, moreVars>>
baseVars == <<chunkVars, summVars, vecVars, openVars, histVars, concVars,
              wfVars, retryVars>>
jobOther == <<baseVars, ppVars, rstVars, caddVars>>
ppOther == <<baseVars, jobVars, rstVars, caddVars>>
rstOther == <<baseVars, jobVars, ppVars, caddVars>>
caddOther == <<baseVars, jobVars, ppVars, rstVars>>

vars == <<chunkVars, summVars, vecVars, serverVars>>

-----------------------------------------------------------------------------
(* Bounds of the chunker's inputs.                                          *)

MaxPad == 13       \* a text is 0..MaxPad bytes "a" followed by a tail
MaxTail == 4       \* the tail has at most MaxTail characters of TailChars
MaxTokens == 4     \* max_tokens ranges over 1..MaxTokens
MaxOverlap == 2    \* overlap ranges over 0..MaxOverlap

Min(a, b) == IF a <= b THEN a ELSE b

-----------------------------------------------------------------------------
(* Strings as UTF-8 byte sequences.  An ASCII character is one byte; the   *)
(* CJK full stop, exclamation and question marks are three bytes each.     *)

NoIndex == -1      \* Option::None of a usize
Panicked == -2     \* the call panicked (a slice off a char boundary)

LF == "LF"
WideStop == <<"E3", "80", "82">>    \* U+3002
WideBang == <<"EF", "BC", "81">>    \* U+FF01
WideQuest == <<"EF", "BC", "9F">>   \* U+FF1F

ContinuationBytes == {"80", "82", "BC", "81", "9F"}

\* The characters the tail of an input text is drawn from.
TailChars == { <<"a">>, <<".">>, <<" ">>, WideStop }

RECURSIVE Flatten(_)
Flatten(ss) == IF ss = <<>> THEN <<>> ELSE Head(ss) \o Flatten(Tail(ss))

RECURSIVE Repeat(_, _)
Repeat(b, n) == IF n = 0 THEN <<>> ELSE <<b>> \o Repeat(b, n - 1)

Texts ==
    { Repeat("a", k) \o Flatten(t) :
        k \in 0..MaxPad,
        t \in UNION { [1..n -> TailChars] : n \in 0..MaxTail } }

\* str::is_char_boundary: 0 and len are boundaries, else the byte at i must
\* not be a continuation byte.
is_char_boundary(s, i) ==
    \/ i = 0
    \/ i = Len(s)
    \/ i > 0 /\ i < Len(s) /\ s[i + 1] \notin ContinuationBytes

\* &s[a..b], for a <= b <= len on char boundaries (0-based, b exclusive)
Slice(s, a, b) == SubSeq(s, a + 1, b)

\* str::rfind(pat): the 0-based byte index of the last match, or None
rfind(hay, pat) ==
    LET hits == { i \in 0..(Len(hay) - Len(pat)) :
                    SubSeq(hay, i + 1, i + Len(pat)) = pat }
    IN  IF hits = {} THEN NoIndex
        ELSE CHOOSE i \in hits : \A j \in hits : j <= i

-----------------------------------------------------------------------------
(* Texts handled by the summarizer are named, not spelled out: the text of  *)
(* the i-th chunk, the response to the k-th generation request, and so on.  *)

NoText == <<"none", 0>>
InputText == <<"text", 0>>
ChunkTextOf(i) == <<"chunk", i>>
Generated(k) == <<"gen", k>>
GenerateFailed(k) == <<"fail", k>>

NoResult == [tag |-> "none", text |-> NoText, one_line |-> NoText]

\* The summarizer at rest, for the specifications of the other components.
IdleSumm ==
    /\ s_text_len = 0
    /\ s_nchunks = 0
    /\ chunk_summaries = <<>>
    /\ batch_summaries = <<>>
    /\ final_text = NoText
    /\ calls = <<>>
    /\ sresult = NoResult
    /\ spc = "idle"

-----------------------------------------------------------------------------
(* Data of the vector index (crates/vector/src/types.rs).                   *)

Docs == {"d1", "d2"}            \* the document ids in use
MaxTime == 2                    \* timestamps are 1..MaxTime
MaxTopK == 2                    \* top_k ranges over 0..MaxTopK
MaxCalls == 3                   \* add_document and delete_document calls made

NoDate == 0                     \* Option::None of a DateTime<Utc>
Times == 1..MaxTime
OptTimes == {NoDate} \cup Times

\* Embedding vectors, and the embeddings the service returns for queries.
Vectors == { <<1, 0>>, <<1, 1>> }
Queries == { <<1, 0>> }
NoVector == <<0, 0>>

\* Result<Vec<f32>> of LlmClient::embed
EmbedOk(v) == [ok |-> TRUE, v |-> v]
EmbedErr == [ok |-> FALSE, v |-> NoVector]

\* The content of an embedding file: a JSON array of floats, or bytes that
\* do not parse as one (what a failed write can leave behind).
FileOf(v) == [ok |-> TRUE, v |-> v]
TornFile == [ok |-> FALSE, v |-> NoVector]
NoFile == [ok |-> FALSE, v |-> <<>>]      \* no file of that name

VectorMetadata(ts) == [timestamp |-> ts]

\* VectorEntry; embedding_path is embedding_dir/<doc_id>.json, named here by
\* the doc_id of the file.
VectorEntry(doc_id, metadata) ==
    [doc_id |-> doc_id, embedding_path |-> doc_id, metadata |-> metadata,
     deleted |-> FALSE]

\* The index file: absent, holding a serialized index, or torn by a failed
\* write.
NoIndexFile == [state |-> "absent", entries |-> <<>>]
IndexFileOf(es) == [state |-> "ok", entries |-> es]
TornIndexFile == [state |-> "torn", entries |-> <<>>]

NoReturn ==
    [op |-> "none", doc_id |-> "", embedded |-> "none", tag |-> "none", err |-> "",
     results |-> <<>>, count |-> 0, query |-> NoVector, top_k |-> 0,
     start_date |-> NoDate, end_date |-> NoDate]

\* A new engine over a directory without an index file
\* (VectorSearchEngine::new, VectorIndex::new).
NewEngine ==
    /\ entries = <<>>
    /\ index_file = NoIndexFile
    /\ embedding_files = <<>>
    /\ embedding_dir = FALSE
    /\ ncalls = 0
    /\ vret = NoReturn

\* The engine at rest, for the specifications of the other components.
IdleVec == NewEngine

-----------------------------------------------------------------------------
(* The server-side components at rest: no engine opened over the persisted *)
(* index.                                                                  *)

NoModel == "none"

\* The file embedding_dir/<doc_id>.json: the JSON vector `embed` returned,
\* kept as the model that produced it and its length.
VectorFile(model, len) == [exists |-> TRUE, model |-> model, len |-> len]
NoVectorFile == [exists |-> FALSE, model |-> NoModel, len |-> 0]

\* VectorIndex: entries (doc_id -> "absent", "active" or "deleted"),
\* embedding_model and embedding_dim.  `exists` tells a persisted index from
\* a missing index file.
VectorIndex(model, dim, es) ==
    [exists |-> TRUE, embedding_model |-> model, embedding_dim |-> dim,
     entries |-> es]
NoDiskIndex ==
    [exists |-> FALSE, embedding_model |-> NoModel, embedding_dim |-> 0,
     entries |-> [d \in Docs |-> "absent"]]

NoEngine == [open |-> FALSE, embedding_model |-> NoModel, index |-> NoDiskIndex]

\* `self.llm_client.embed(&self.embedding_model, ..)` as made by `op`.
EmbedRequest(op, model) == [op |-> op, model |-> model]
NoEmbed == EmbedRequest("none", NoModel)

IdleOpen ==
    /\ engine = NoEngine
    /\ disk_index = NoDiskIndex
    /\ disk_embeddings = [d \in Docs |-> NoVectorFile]
    /\ last_embed = NoEmbed

\* The history file: missing, a JSON array of objects, or bytes that are
\* not JSON (an interrupted write).
NoHistoryFile == [kind |-> "absent", items |-> <<>>]
JsonFile(items) == [kind |-> "json", items |-> items]
GarbageFile == [kind |-> "garbage", items |-> <<>>]

\* The return of a HistoryManager call: `invoked` whether update_fn ran,
\* `wrote` whether fs::write was called, `found` what a read returned.
HistoryReturn(op, ids, tag, invoked, wrote, found) ==
    [op |-> op, ids |-> ids, tag |-> tag, invoked |-> invoked,
     wrote |-> wrote, found |-> found]
NoHistoryReturn == HistoryReturn("none", {}, "Ok", FALSE, FALSE, <<>>)

IdleHist ==
    /\ records = <<>>
    /\ history_file = NoHistoryFile
    /\ hm = "unloaded"
    /\ hret = NoHistoryReturn

\* The workflows that share the history store, and one workflow's state.
Workflows == {"w1", "w2"}
WorkerState(pc, id, data, left) ==
    [pc |-> pc, id |-> id, data |-> data, left |-> left]

IdleConc ==
    /\ hlock = "free"
    /\ workers = [w \in Workflows |-> WorkerState("idle", "", NoHistoryFile, 0)]
    /\ applied = {}
    /\ last_write = "none"

\* TaskInfo: status, progress and message; `exists` is whether the task is
\* in the map.
TaskInfo(status, progress, message) ==
    [exists |-> TRUE, status |-> status, progress |-> progress,
     message |-> message]
NoTask == [exists |-> FALSE, status |-> "none", progress |-> 0, message |-> ""]

\* WorkflowOptions, and the state of one execute() call: `tp` and `sp` are
\* result.transcript_path and result.summary_path being Some, `err` is the
\* text of the error it returned.
WorkflowOptions(run_stt, run_summarize, run_embed) ==
    [run_stt |-> run_stt, run_summarize |-> run_summarize,
     run_embed |-> run_embed]
WorkflowState(pc, options, tp, sp, ret, err) ==
    [pc |-> pc, options |-> options, tp |-> tp, sp |-> sp, ret |-> ret,
     err |-> err]
NoWorkflow ==
    WorkflowState("request", WorkflowOptions(FALSE, FALSE, FALSE), FALSE,
                  FALSE, "none", "")

\* A text file: "none" (no file), "empty" or "text"; `transcript_by` and
\* `summary_by` are the number of the request whose run wrote the file, 0
\* for a file that was there before the first request.
OutputFiles(transcript, transcript_by, summary, summary_by) ==
    [transcript |-> transcript, transcript_by |-> transcript_by,
     summary |-> summary, summary_by |-> summary_by]

\* What a request finds when it begins.
Snapshot(rs, files, ix) == [records |-> rs, wfiles |-> files, indexed |-> ix]

\* The n-th request: `calls` are the calls execute() has made outside the
\* orchestrator and to update_record, in order; `past` are the options and
\* the return of the requests before it.
RunState(n, cs, at_start, past) ==
    [n |-> n, calls |-> cs, at_start |-> at_start, past |-> past]
NoRun == RunState(0, <<>>, Snapshot(<<>>, OutputFiles("none", 0, "none", 0),
                                    FALSE), <<>>)

\* A request that has ended: what it asked for and what execute() returned.
Outcome(options, ret) == [options |-> options, ret |-> ret]

IdleWf ==
    /\ task = NoTask
    /\ wf = NoWorkflow
    /\ wfiles = OutputFiles("none", 0, "none", 0)
    /\ indexed = FALSE
    /\ progress_log = <<>>
    /\ cancelled_at = "none"
    /\ run = NoRun

\* An OllamaClient call: `tries` are the results of its attempts, `sleeps`
\* the seconds it slept, `last_error` is "" for None.
NoClientCall ==
    [pc |-> "idle", op |-> "none", attempt |-> 0, tries |-> <<>>,
     sleeps |-> <<>>, last_error |-> "",
     ret |-> [ok |-> FALSE, attempt |-> 0, error |-> ""]]

IdleRetry == ollama = NoClientCall

\* The task ids a client may name.
TaskIds == {"t1", "t2"}

\* The return of a JobManager call; `value` is what it returned: "()" for
\* unit, "true" or "false" for cancel_task, the new id for create_task.
JobReturn(op, id, value) == [op |-> op, id |-> id, value |-> value]

IdleJobs ==
    /\ tasks = [id \in TaskIds |-> NoTask]
    /\ jret = JobReturn("none", "", "()")

\* A remove_word_repetitions call: `words` is text.split_whitespace(),
\* `out` the words of the returned string.
WordsCall(pc, words, cleaned, out) ==
    [pc |-> pc, words |-> words, cleaned_words |-> cleaned, out |-> out]

IdlePp == pp = WordsCall("idle", <<>>, <<>>, <<>>)

\* The embed phases and the /reset requests that run on one file id.
EmbedWorkflows == {"w1", "w2"}
ResetRequests == {"q1"}

\* The state they share: the History record of the file, the entries of the
\* vector index, the holder of the history RwLock, and where each is.
ResetState(record, index, lock, wpc, rpc) ==
    [record |-> record, index |-> index, lock |-> lock, wpc |-> wpc, rpc |-> rpc]

IdleRst ==
    rst = ResetState(<<>>, <<>>, "free", [w \in EmbedWorkflows |-> "idle"],
                     [q \in ResetRequests |-> "idle"])

\* The add_document calls that run at the same time for one doc_id.
AddCalls == {"a1", "a2"}

\* What they share: the embedding file of the doc_id, the entries of the
\* index in memory, the index file, and where each call is.
AddState(file, index, saved, pc) ==
    [file |-> file, index |-> index, saved |-> saved, pc |-> pc]

IdleCadd ==
    cadd = AddState(NoFile, <<>>, NoIndexFile, [c \in AddCalls |-> "idle"])

IdleMore ==
    /\ IdleJobs
    /\ IdlePp
    /\ IdleRst
    /\ IdleCadd

IdleServer ==
    /\ IdleOpen
    /\ IdleHist
    /\ IdleConc
    /\ IdleWf
    /\ IdleRetry
    /\ IdleMore

-----------------------------------------------------------------------------
(* chunking.rs                                                             *)

chars_per_token == 4

sentence_endings ==
    << <<".", " ">>, <<".", LF>>, <<"!", " ">>, <<"!", LF>>,
       <<"?", " ">>, <<"?", LF>>, WideStop, WideBang, WideQuest >>

\* The `for ending in &sentence_endings` loop of find_break_point from its
\* k-th ending on: acc = [best_idx, best_pos], best_pos = NoIndex for None.
RECURSIVE BreakScan(_, _, _, _)
BreakScan(search_text, search_start, k, acc) ==
    IF k > Len(sentence_endings) THEN acc
    ELSE LET ending == sentence_endings[k]
             idx == rfind(search_text, ending)
         IN  BreakScan(search_text, search_start, k + 1,
                 IF idx # NoIndex /\ idx > acc.best_idx
                 THEN [best_idx |-> idx,
                       best_pos |-> search_start + idx + Len(ending)]
                 ELSE acc)

\* find_break_point(text, start, ideal_end): the break position, or Panicked
\* when &text[search_start..ideal_end] is cut off a char boundary.
find_break_point(t, s, ideal_end) ==
    LET search_start == s + (((ideal_end - s) * 80) \div 100)
    IN  IF ~(is_char_boundary(t, search_start) /\ is_char_boundary(t, ideal_end))
        THEN Panicked
        ELSE LET search_text == Slice(t, search_start, ideal_end)
                 found == BreakScan(search_text, search_start, 1,
                              [best_idx |-> 0, best_pos |-> NoIndex])
             IN  IF found.best_pos = NoIndex THEN ideal_end ELSE found.best_pos

TextChunk(t, s, e) == [text |-> Slice(t, s, e), start |-> s, end |-> e]

max_chars == max_tokens * chars_per_token
overlap_chars == overlap * chars_per_token
text_len == Len(text)

\* The chunk vector cannot grow without limit: a push beyond MaxChunks is the
\* allocation failure that aborts the process.  No returning call comes near
\* it (OomOnlyWhenStalled).
MaxChunks == ((MaxPad + 3 * MaxTail) \div chars_per_token) + 3

\* chunk_text up to the loop: the early return of a short text.
ChunkTextCall ==
    /\ cpc = "call"
    /\ IF text_len <= max_chars
       THEN /\ chunks' = <<TextChunk(text, 0, text_len)>>
            /\ cpc' = "done"
       ELSE /\ chunks' = <<>>
            /\ cpc' = "loop"
    /\ start' = 0
    /\ UNCHANGED <<text, max_tokens, overlap, summVars, vecVars, serverVars>>

\* An advance with the overlap added where it should be taken off.
NextStart_Gap(actual_end) == actual_end + overlap_chars

\* `start` after one chunk ending at actual_end ("Move to next chunk with
\* overlap").
NextStart(actual_end) ==
    IF actual_end >= overlap_chars THEN actual_end - overlap_chars ELSE actual_end

\* One iteration of `while start < text_len`.
ChunkTextLoop ==
    /\ cpc = "loop"
    /\ start < text_len
    /\ LET end == Min(start + max_chars, text_len)
           actual_end == IF end < text_len
                         THEN find_break_point(text, start, end)
                         ELSE end
       IN  IF \/ actual_end = Panicked
              \/ ~is_char_boundary(text, start)
              \/ ~is_char_boundary(text, actual_end)
           THEN /\ cpc' = "panic"
                /\ UNCHANGED <<start, chunks>>
           ELSE IF Len(chunks) >= MaxChunks
           THEN /\ cpc' = "oom"
                /\ UNCHANGED <<start, chunks>>
           ELSE /\ chunks' = Append(chunks, TextChunk(text, start, actual_end))
                /\ start' = NextStart(actual_end)
                /\ cpc' = IF start' >= text_len THEN "done" ELSE "loop"
    /\ UNCHANGED <<text, max_tokens, overlap, summVars, vecVars, serverVars>>

\* The chunker at rest, for the specifications of the other components.
IdleChunk ==
    /\ text = <<>>
    /\ max_tokens = 1
    /\ overlap = 0
    /\ start = 0
    /\ chunks = <<>>
    /\ cpc = "idle"

InitChunk ==
    /\ IdleSumm
    /\ IdleVec
    /\ IdleServer
    /\ text \in Texts
    /\ max_tokens \in 1..MaxTokens
    /\ overlap \in 0..MaxOverlap
    /\ start = 0
    /\ chunks = <<>>
    /\ cpc = "call"

NextChunk ==
    \/ ChunkTextCall
    \/ ChunkTextLoop

SpecChunk == InitChunk /\ [][NextChunk]_vars

\* The loop is sequential code: it takes its next step whenever it has one.
FairSpecChunk == SpecChunk /\ WF_vars(NextChunk)

-----------------------------------------------------------------------------
(* summarize.rs                                                            *)

BATCH_REDUCE_SIZE == 10
DirectLimit == 8000        \* `if text.len() < 8000`
SummMaxTokens == 2000      \* chunk_text(text, 2000, 200)
SummOverlap == 200

MaxChunkCount == 101       \* bound: chunk lists of up to this many chunks

\* The lengths of the texts given to summarize: short ones, and those at and
\* beyond the limit of the direct path.
SummTextLens == {100, DirectLimit - 1, DirectLimit, DirectLimit + 1}

\* chunks.len() of the list chunk_text(text, 2000, 200) returns: one chunk
\* for a text of at most max_chars bytes (the early return), several beyond.
ChunkCounts(len) ==
    IF len <= SummMaxTokens * chars_per_token THEN {1} ELSE 2..MaxChunkCount

\* A batch loop that takes one element too many per piece.
RECURSIVE slice_chunks_OneMore(_, _)
slice_chunks_OneMore(seq, size) ==
    IF seq = <<>> THEN <<>>
    ELSE IF Len(seq) <= size + 1 THEN <<seq>>
    ELSE <<SubSeq(seq, 1, size + 1)>>
         \o slice_chunks_OneMore(SubSeq(seq, size + 2, Len(seq)), size)

\* slice::chunks(size): consecutive pieces of `size` elements, the last one
\* shorter when the length is not a multiple of size.
RECURSIVE slice_chunks(_, _)
slice_chunks(seq, size) ==
    IF seq = <<>> THEN <<>>
    ELSE IF Len(seq) <= size THEN <<seq>>
    ELSE <<SubSeq(seq, 1, size)>> \o slice_chunks(SubSeq(seq, size + 1, Len(seq)), size)

\* The threshold test written with >= for >.
UseBatchReduce_Geq(n) == n >= BATCH_REDUCE_SIZE

\* `if chunk_summaries.len() > BATCH_REDUCE_SIZE`
UseBatchReduce(n) == n > BATCH_REDUCE_SIZE

\* A call whose failure is dropped instead of returned.
Try_Ignore(out, next) == next

\* The `?` after a generation call: a failed call ends summarize, a
\* successful one goes on at `next`.
Try(out, next) == IF out[1] = "fail" THEN "done" ELSE next

\* Result<Summary> once the call `out` has been made at the end of the path,
\* or Err as soon as a call failed.
ErrResult == [tag |-> "Err", text |-> NoText, one_line |-> NoText]
Summary(full, one_line) == [tag |-> "Ok", text |-> full, one_line |-> one_line]

\* generate_with_options(prompt, max_tokens): the request, and its outcome
\* `ok` decided by the generation service.  The prompt is the template and
\* the texts joined into it with the separator `sep`.
GenerateRequest(template, parts, sep, num_predict, ok) ==
    [prompt |-> template, parts |-> parts, sep |-> sep,
     num_predict |-> num_predict,
     out |-> IF ok THEN Generated(Len(calls) + 1)
             ELSE GenerateFailed(Len(calls) + 1)]

\* The limit test written with <= for <.
IsShort_Leq(len) == len <= DirectLimit

\* `if text.len() < 8000`
IsShort(len) == len < DirectLimit

\* summarize up to its first generation call: the choice of the path, and
\* on the map-reduce path `chunk_text(text, 2000, 200)`.
SummarizeCall ==
    /\ spc = "call"
    /\ IF IsShort(s_text_len)
       THEN /\ spc' = "direct"
            /\ UNCHANGED s_nchunks
       ELSE /\ spc' = "map"
            /\ s_nchunks' \in ChunkCounts(s_text_len)
    /\ UNCHANGED <<s_text_len, chunk_summaries, batch_summaries,
                   final_text, calls, sresult, chunkVars, vecVars, serverVars>>

\* summarize_direct: the full summary of the whole text.
SummarizeDirect ==
    /\ spc = "direct"
    /\ \E ok \in BOOLEAN :
         LET req == GenerateRequest("chunk_prompt", <<InputText>>, "none", 1000, ok)
         IN  /\ calls' = Append(calls, req)
             /\ spc' = Try(req.out, "one_line")
             /\ final_text' = IF spc' = "done" THEN final_text ELSE req.out
             /\ sresult' = IF spc' = "done" THEN ErrResult ELSE sresult
    /\ UNCHANGED <<s_text_len, s_nchunks, chunk_summaries, batch_summaries,
                   chunkVars, vecVars, serverVars>>

\* One iteration of `for (i, chunk) in chunks.iter().enumerate()`, and after
\* the last one the choice between batch reduce and direct reduce.
SummarizeChunk ==
    /\ spc = "map"
    /\ Len(chunk_summaries) < s_nchunks
    /\ \E ok \in BOOLEAN :
         LET i == Len(chunk_summaries) + 1
             req == GenerateRequest("chunk_prompt", <<ChunkTextOf(i)>>, "none", 500, ok)
             after == IF i < s_nchunks THEN "map"
                      ELSE IF UseBatchReduce(i) THEN "batch" ELSE "reduce"
         IN  /\ calls' = Append(calls, req)
             /\ spc' = Try(req.out, after)
             /\ chunk_summaries' = IF spc' = "done" THEN chunk_summaries
                                   ELSE Append(chunk_summaries, req.out)
             /\ sresult' = IF spc' = "done" THEN ErrResult ELSE sresult
    /\ UNCHANGED <<s_text_len, s_nchunks, batch_summaries, final_text, chunkVars, vecVars, serverVars>>

\* "Direct reduce for smaller number of chunks"
ReduceDirect ==
    /\ spc = "reduce"
    /\ \E ok \in BOOLEAN :
         LET req == GenerateRequest("reduce_prompt", chunk_summaries, "chunk", 1000, ok)
         IN  /\ calls' = Append(calls, req)
             /\ spc' = Try(req.out, "one_line")
             /\ final_text' = IF spc' = "done" THEN final_text ELSE req.out
             /\ sresult' = IF spc' = "done" THEN ErrResult ELSE sresult
    /\ UNCHANGED <<s_text_len, s_nchunks, chunk_summaries, batch_summaries,
                   chunkVars, vecVars, serverVars>>

\* batch_reduce, 1st level: one iteration over
\* chunk_summaries.chunks(BATCH_REDUCE_SIZE).
BatchReduceBatch ==
    /\ spc = "batch"
    /\ LET batches == slice_chunks(chunk_summaries, BATCH_REDUCE_SIZE)
           b == Len(batch_summaries) + 1
       IN  /\ b <= Len(batches)
           /\ \E ok \in BOOLEAN :
                LET req == GenerateRequest("reduce_prompt", batches[b], "chunk", 1000, ok)
                    after == IF b < Len(batches) THEN "batch" ELSE "batch_final"
                IN  /\ calls' = Append(calls, req)
                    /\ spc' = Try(req.out, after)
                    /\ batch_summaries' = IF spc' = "done" THEN batch_summaries
                                          ELSE Append(batch_summaries, req.out)
                    /\ sresult' = IF spc' = "done" THEN ErrResult ELSE sresult
    /\ UNCHANGED <<s_text_len, s_nchunks, chunk_summaries, final_text, chunkVars, vecVars, serverVars>>

\* batch_reduce, 2nd level: the batch summaries combined in one call.
BatchReduceFinal ==
    /\ spc = "batch_final"
    /\ \E ok \in BOOLEAN :
         LET req == GenerateRequest("reduce_prompt", batch_summaries, "batch", 1000, ok)
         IN  /\ calls' = Append(calls, req)
             /\ spc' = Try(req.out, "one_line")
             /\ final_text' = IF spc' = "done" THEN final_text ELSE req.out
             /\ sresult' = IF spc' = "done" THEN ErrResult ELSE sresult
    /\ UNCHANGED <<s_text_len, s_nchunks, chunk_summaries, batch_summaries,
                   chunkVars, vecVars, serverVars>>

\* generate_one_line(&final_text) and the Summary returned.
GenerateOneLine ==
    /\ spc = "one_line"
    /\ \E ok \in BOOLEAN :
         LET req == GenerateRequest("one_line_prompt", <<final_text>>, "none", 100, ok)
         IN  /\ calls' = Append(calls, req)
             /\ spc' = "done"
             /\ sresult' = IF Try(req.out, "ok") = "done" THEN ErrResult
                           ELSE Summary(final_text, req.out)
    /\ UNCHANGED <<s_text_len, s_nchunks, chunk_summaries, batch_summaries,
                   final_text, chunkVars, vecVars, serverVars>>

InitSumm ==
    /\ IdleChunk
    /\ IdleVec
    /\ IdleServer
    /\ s_text_len \in SummTextLens
    /\ s_nchunks = 0
    /\ chunk_summaries = <<>>
    /\ batch_summaries = <<>>
    /\ final_text = NoText
    /\ calls = <<>>
    /\ sresult = NoResult
    /\ spc = "call"

NextSumm ==
    \/ SummarizeCall
    \/ SummarizeDirect
    \/ SummarizeChunk
    \/ ReduceDirect
    \/ BatchReduceBatch
    \/ BatchReduceFinal
    \/ GenerateOneLine

SpecSumm == InitSumm /\ [][NextSumm]_vars

-----------------------------------------------------------------------------
(* types.rs: VectorIndex                                                   *)

\* An index that drops the entry where it should only mark it.
delete_entry_Remove(es, doc_id) ==
    [d \in DOMAIN es \ {doc_id} |-> es[d]]

\* An insert that keeps the entry already stored under the id
\* (entry().or_insert).
add_entry_KeepsOld(es, entry) == es @@ (entry.doc_id :> entry)

\* VectorIndex::add_entry: HashMap::insert, replacing an entry of the same id
add_entry(es, entry) == (entry.doc_id :> entry) @@ es

\* VectorIndex::delete_entry: soft delete, nothing for an unknown id
delete_entry(es, doc_id) ==
    IF doc_id \in DOMAIN es
    THEN [es EXCEPT ![doc_id].deleted = TRUE]
    ELSE es

\* VectorIndex::active_entries, as the set of the entries it lists
active_entries(es) == { es[d] : d \in { x \in DOMAIN es : ~es[x].deleted } }

\* VectorIndex::count
count(es) == Cardinality(active_entries(es))

-----------------------------------------------------------------------------
(* similarity.rs: cosine_similarity.  The scores are compared, never       *)
(* printed, so a score c is kept as 4 * sgn(c) * c^2, which is an integer  *)
(* for the vectors in use and grows with c.                                *)

Dot(a, b) == a[1] * b[1] + a[2] * b[2]

cosine_similarity(a, b) ==
    LET d == Dot(a, b)
        na == Dot(a, a)
        nb == Dot(b, b)
    IN  IF na = 0 \/ nb = 0 THEN 0
        ELSE (IF d < 0 THEN -1 ELSE 1) * ((4 * d * d) \div (na * nb))

-----------------------------------------------------------------------------
(* engine.rs                                                               *)

SearchResult(doc_id, score, metadata) ==
    [doc_id |-> doc_id, score |-> score, metadata |-> metadata]

\* A date filter whose bounds are exclusive.
PassesDateFilter_Exclusive(ts, start_date, end_date) ==
    IF ts # NoDate
    THEN /\ ~(start_date # NoDate /\ ts <= start_date)
         /\ ~(end_date # NoDate /\ ts >= end_date)
    ELSE ~(start_date # NoDate \/ end_date # NoDate)

\* "Apply date filter if specified": FALSE where the loop says `continue`
PassesDateFilter(ts, start_date, end_date) ==
    IF ts # NoDate
    THEN /\ ~(start_date # NoDate /\ ts < start_date)
         /\ ~(end_date # NoDate /\ ts > end_date)
    ELSE ~(start_date # NoDate \/ end_date # NoDate)

\* A comparator with its operands the other way round: ascending scores.
Before_Ascending(a, b) == a.score < b.score

\* The comparator |a, b| b.score.partial_cmp(&a.score): Less, so a sorts
\* before b, exactly when b's score is the smaller one.
Before(a, b) == b.score < a.score

\* results.sort_by(..): a stable sort, so an element goes after the elements
\* already placed that do not sort after it.
RECURSIVE InsertSorted(_, _)
InsertSorted(x, sorted) ==
    IF sorted = <<>> THEN <<x>>
    ELSE IF Before(x, Head(sorted)) THEN <<x>> \o sorted
    ELSE <<Head(sorted)>> \o InsertSorted(x, Tail(sorted))

RECURSIVE sort_by(_)
sort_by(seq) ==
    IF seq = <<>> THEN <<>>
    ELSE InsertSorted(seq[Len(seq)], sort_by(SubSeq(seq, 1, Len(seq) - 1)))

\* Vec::truncate(len)
truncate(seq, len) == IF Len(seq) <= len THEN seq ELSE SubSeq(seq, 1, len)

\* The orders in which HashMap::values() can list the active entries.
ActiveOrders(es) ==
    LET act == active_entries(es)
    IN  { f \in [1..Cardinality(act) -> act] :
            \A i, j \in 1..Cardinality(act) : f[i] = f[j] => i = j }

\* A scan that leaves out the entries whose embedding file cannot be read
\* or parsed, and scores the rest.
SearchOutcome_SkipsBad(order, query_embedding, top_k, start_date, end_date) ==
    LET good == SelectSeq(order,
                    LAMBDA e : /\ PassesDateFilter(e.metadata.timestamp,
                                                   start_date, end_date)
                               /\ e.embedding_path \in DOMAIN embedding_files
                               /\ embedding_files[e.embedding_path].ok)
        scored == [ i \in 1..Len(good) |->
                      SearchResult(good[i].doc_id,
                          cosine_similarity(query_embedding,
                              embedding_files[good[i].embedding_path].v),
                          good[i].metadata) ]
    IN  [tag |-> "Ok", err |-> "", results |-> truncate(sort_by(scored), top_k)]

\* The body of search_with_filters under the read lock, for the entries
\* listed in `order`: the error of the first embedding file that cannot be
\* read or parsed, else the results sorted and cut to top_k.
SearchOutcome(order, query_embedding, top_k, start_date, end_date) ==
    LET passing == SelectSeq(order,
                       LAMBDA e : PassesDateFilter(e.metadata.timestamp,
                                                   start_date, end_date))
        unreadable == { i \in 1..Len(passing) :
                          passing[i].embedding_path \notin DOMAIN embedding_files }
        unparsable == { i \in 1..Len(passing) :
                          /\ i \notin unreadable
                          /\ ~embedding_files[passing[i].embedding_path].ok }
        bad == unreadable \cup unparsable
        first_bad == CHOOSE i \in bad : \A j \in bad : i <= j
        scored == [ i \in 1..Len(passing) |->
                      SearchResult(passing[i].doc_id,
                          cosine_similarity(query_embedding,
                              embedding_files[passing[i].embedding_path].v),
                          passing[i].metadata) ]
    IN  IF bad # {}
        THEN [tag |-> "Err",
              err |-> IF first_bad \in unreadable THEN "io" ELSE "json",
              results |-> <<>>]
        ELSE [tag |-> "Ok", err |-> "", results |-> truncate(sort_by(scored), top_k)]

\* tokio::fs::write of `content` over the file `old`: written, or failed
\* leaving the file as it was or torn.
WriteOutcomes(old, content, torn) ==
    { [ok |-> TRUE, file |-> content],
      [ok |-> FALSE, file |-> old],
      [ok |-> FALSE, file |-> torn] }

\* add_document that makes the embeddings directory before it has the
\* embedding.
EmbeddingDirAfter_Early(dir, embedding) == TRUE

\* embedding_dir after `embed(..).await?` and a create_dir_all that works:
\* a failed embedding returns before the directory is made.
EmbeddingDirAfter(dir, embedding) == IF embedding.ok THEN TRUE ELSE dir

\* The return of a call: `embedded` says how the call's embedding request
\* ended ("ok", "failed", or "none" for a call that makes none).
Return(op, doc_id, tag, err) ==
    [NoReturn EXCEPT !.op = op, !.doc_id = doc_id, !.tag = tag, !.err = err,
                     !.embedded = IF op \in {"delete_document", "stats"} THEN "none"
                                  ELSE IF err = "embed" THEN "failed" ELSE "ok"]

\* save_index: index_file and the call's result.
SaveIndex(es, op, doc_id) ==
    \E w \in WriteOutcomes(index_file, IndexFileOf(es), TornIndexFile) :
        /\ index_file' = w.file
        /\ vret' = IF w.ok THEN Return(op, doc_id, "Ok", "")
                   ELSE Return(op, doc_id, "Err", "io")

\* add_document: the embedding, the directory, the embedding file, then the
\* entry inserted and the index saved.
AddDocument(doc_id, ts) ==
    /\ ncalls < MaxCalls
    /\ ncalls' = ncalls + 1
    /\ \E embedding \in {EmbedErr} \cup { EmbedOk(v) : v \in Vectors },
          dir_made \in BOOLEAN :
         /\ embedding_dir' = (dir_made /\ EmbeddingDirAfter(embedding_dir, embedding))
         /\ IF ~embedding.ok
            THEN /\ dir_made
                 /\ vret' = Return("add_document", doc_id, "Err", "embed")
                 /\ UNCHANGED <<embedding_files, entries, index_file>>
            ELSE IF ~embedding_dir'
            THEN /\ vret' = Return("add_document", doc_id, "Err", "io")
                 /\ UNCHANGED <<embedding_files, entries, index_file>>
            ELSE \E w \in WriteOutcomes(
                              IF doc_id \in DOMAIN embedding_files
                              THEN embedding_files[doc_id] ELSE NoFile,
                              FileOf(embedding.v), TornFile) :
                   /\ embedding_files' =
                          IF w.file = NoFile THEN embedding_files
                          ELSE (doc_id :> w.file) @@ embedding_files
                   /\ IF ~w.ok
                      THEN /\ vret' = Return("add_document", doc_id, "Err", "io")
                           /\ UNCHANGED <<entries, index_file>>
                      ELSE /\ entries' = add_entry(entries,
                                  VectorEntry(doc_id, VectorMetadata(ts)))
                           /\ SaveIndex(entries', "add_document", doc_id)
    /\ UNCHANGED <<chunkVars, summVars, serverVars>>

\* delete_document
DeleteDocument(doc_id) ==
    /\ ncalls < MaxCalls
    /\ ncalls' = ncalls + 1
    /\ entries' = delete_entry(entries, doc_id)
    /\ SaveIndex(entries', "delete_document", doc_id)
    /\ UNCHANGED <<embedding_files, embedding_dir, chunkVars, summVars, serverVars>>

\* search and stats read the engine and leave it as it is, so one of them
\* after another reaches nothing new: they are taken after a writing call.
AfterWrite == vret.op \in {"none", "add_document", "delete_document"}

\* search_with_filters: the query embedding, then the scan under the read
\* lock, which no writer interrupts.
SearchWithFilters(op, top_k, start_date, end_date) ==
    /\ AfterWrite
    /\ \E query \in {EmbedErr} \cup { EmbedOk(v) : v \in Queries } :
         IF ~query.ok
         THEN vret' = [Return(op, "", "Err", "embed") EXCEPT
                          !.top_k = top_k, !.start_date = start_date,
                          !.end_date = end_date]
         ELSE \E order \in ActiveOrders(entries) :
                LET out == SearchOutcome(order, query.v, top_k, start_date, end_date)
                IN  vret' = [Return(op, "", out.tag, out.err) EXCEPT
                                !.results = out.results, !.query = query.v,
                                !.top_k = top_k, !.start_date = start_date,
                                !.end_date = end_date]
    /\ UNCHANGED <<entries, index_file, embedding_files, embedding_dir,
                   ncalls, chunkVars, summVars, serverVars>>

\* search: search_with_filters(query, top_k, None, None)
Search(top_k) == SearchWithFilters("search", top_k, NoDate, NoDate)

\* stats
Stats ==
    /\ AfterWrite
    /\ vret' = [Return("stats", "", "Ok", "") EXCEPT !.count = count(entries)]
    /\ UNCHANGED <<entries, index_file, embedding_files, embedding_dir,
                   ncalls, chunkVars, summVars, serverVars>>

InitVec ==
    /\ IdleChunk
    /\ IdleSumm
    /\ IdleServer
    /\ NewEngine

NextVec ==
    \/ \E d \in Docs, ts \in OptTimes : AddDocument(d, ts)
    \/ \E d \in Docs : DeleteDocument(d)
    \/ \E k \in 0..MaxTopK, sd \in OptTimes, ed \in OptTimes :
         SearchWithFilters("search_with_filters", k, sd, ed)
    \/ \E k \in 0..MaxTopK : Search(k)
    \/ Stats

SpecVec == InitVec /\ [][NextVec]_vars

-----------------------------------------------------------------------------
(* VectorSearchEngine::new over the persisted index (engine.rs 22-46), and *)
(* the embedding model and dimension of the vectors the engine then adds.  *)
(* The process is started with a configured embedding model, works, exits, *)
(* and is started again, possibly with another EMBEDDING_MODEL.            *)

\* config.embedding_model: the default and another model of the embedding
\* server (EMBEDDING_MODEL).
EmbeddingModels == {"nomic-embed-text", "mxbai-embed-large"}

\* The length of the vector LlmClient::embed returns for a model.
ModelDim(model) == IF model = "nomic-embed-text" THEN 768 ELSE 1024

\* `VectorIndex::new(&config.embedding_model, 768) // default dimension`
DefaultDim == 768

\* VectorIndex::new
VectorIndexNew(model, dim) ==
    VectorIndex(model, dim, [d \in Docs |-> "absent"])

\* `let index = if index_path.exists() { from_str(read_to_string) } else
\* { VectorIndex::new(..) }`: an index the engine wrote parses.
LoadOrCreate(cfg_model) ==
    IF disk_index.exists
    THEN [ok |-> TRUE, index |-> disk_index]
    ELSE [ok |-> TRUE, index |-> VectorIndexNew(cfg_model, DefaultDim)]

\* VectorSearchEngine::new(config, llm_client)
New(cfg_model) ==
    /\ ~engine.open
    /\ LET loaded == LoadOrCreate(cfg_model)
       IN  engine' = IF loaded.ok
                     THEN [open |-> TRUE, embedding_model |-> cfg_model,
                           index |-> loaded.index]
                     ELSE NoEngine
    /\ UNCHANGED <<disk_index, disk_embeddings, last_embed>>
    /\ UNCHANGED openOther

\* add_document writes and indexes whatever vector `embed` returned.
AcceptsVector(len, dim) == TRUE

\* add_document on the opened engine: `embed` with self.embedding_model,
\* the vector file, the entry, save_index.  (Its failures are in
\* AddDocument above; here the embedding request fails or the call works.)
OpenAddDocument(doc_id, embed_ok) ==
    /\ engine.open
    /\ last_embed' = EmbedRequest("add_document", engine.embedding_model)
    /\ LET len == ModelDim(engine.embedding_model)
           index == [engine.index EXCEPT !.entries[doc_id] = "active"]
       IN  IF embed_ok /\ AcceptsVector(len, engine.index.embedding_dim)
           THEN /\ disk_embeddings' =
                     [disk_embeddings EXCEPT
                        ![doc_id] = VectorFile(engine.embedding_model, len)]
                /\ engine' = [engine EXCEPT !.index = index]
                /\ disk_index' = index
           ELSE UNCHANGED <<engine, disk_index, disk_embeddings>>
    /\ UNCHANGED openOther

\* search_with_filters on the opened engine: the query is embedded with
\* self.embedding_model.
OpenSearch ==
    /\ engine.open
    /\ last_embed' = EmbedRequest("search", engine.embedding_model)
    /\ UNCHANGED <<engine, disk_index, disk_embeddings>>
    /\ UNCHANGED openOther

\* delete_document on the opened engine.
OpenDeleteDocument(doc_id) ==
    /\ engine.open
    /\ LET index == IF engine.index.entries[doc_id] = "absent"
                    THEN engine.index
                    ELSE [engine.index EXCEPT !.entries[doc_id] = "deleted"]
       IN  /\ engine' = [engine EXCEPT !.index = index]
           /\ disk_index' = index
    /\ UNCHANGED <<disk_embeddings, last_embed>>
    /\ UNCHANGED openOther

\* The process exits: the engine is dropped, the files stay.
Exit ==
    /\ engine.open
    /\ engine' = NoEngine
    /\ last_embed' = NoEmbed
    /\ UNCHANGED <<disk_index, disk_embeddings>>
    /\ UNCHANGED openOther

InitOpen ==
    /\ IdleChunk
    /\ IdleSumm
    /\ IdleVec
    /\ IdleServer

NextOpen ==
    \/ \E m \in EmbeddingModels : New(m)
    \/ \E d \in Docs, ok \in BOOLEAN : OpenAddDocument(d, ok)
    \/ OpenSearch
    \/ \E d \in Docs : OpenDeleteDocument(d)
    \/ Exit

SpecOpen == InitOpen /\ [][NextOpen]_vars

-----------------------------------------------------------------------------
(* HistoryManager (crates/server/src/history.rs) and HistoryRecord         *)
(* (crates/server/src/types.rs).  The methods take &mut self, so each call *)
(* is one step.  Strings are tuples of their parts.                        *)

\* Record ids: `Uuid::new_v4()` of the upload handler.
RecIds == {"r1", "r2"}

EmptyString == <<>>

\* format!("/download/{}", id)
DownloadPath(id) == <<"/download/", id>>

\* Option<String>: None is the empty sequence, Some(p) is <<p>>.
None == <<>>
Some(p) == <<p>>

\* db_base_path.join("whisper_output").join(format!("{}.txt", file_uuid))
TranscriptPath(id) == <<"whisper_output/", id, ".txt">>

\* db_base_path.join("whisper_output").join(format!("{}_summary.txt", ..))
SummaryPath(id) == <<"whisper_output/", id, "_summary.txt">>

\* HistoryRecord::new(id, filename)
HistoryRecordNew(id) ==
    [id |-> id, file_path |-> DownloadPath(id), stt_done |-> FALSE,
     stt_path |-> None, summarize_done |-> FALSE, summary_path |-> None,
     embed_done |-> FALSE, deleted |-> FALSE]

\* The JSON object of a record: the fields it has and their values.
JsonObject(fields, r) ==
    [fields |-> fields, id |-> r.id, file_path |-> r.file_path,
     stt_done |-> r.stt_done, stt_path |-> r.stt_path,
     summarize_done |-> r.summarize_done, summary_path |-> r.summary_path,
     embed_done |-> r.embed_done, deleted |-> r.deleted]

AllFields ==
    {"id", "file_path", "stt_done", "stt_path", "summarize_done",
     "summary_path", "embed_done", "deleted"}

\* The fields that are neither #[serde(default)] nor an Option.
RequiredFields == {"id", "stt_done", "summarize_done", "embed_done"}

\* Serialize that leaves the deleted flag out of the object.
Serialize_NoDeleted(r) == JsonObject(AllFields \ {"deleted"}, r)

\* #[derive(Serialize)] for HistoryRecord: every field is written.
Serialize(r) == JsonObject(AllFields, r)

\* serde_json::to_string_pretty(&self.records)
to_string_pretty(rs) == JsonFile([i \in 1..Len(rs) |-> Serialize(rs[i])])

\* #[derive(Deserialize)] for HistoryRecord: a missing file_path is "" and
\* a missing deleted is false (#[serde(default)]); a missing Option is None.
Deserialize(o) ==
    [id |-> o.id,
     file_path |-> IF "file_path" \in o.fields THEN o.file_path ELSE EmptyString,
     stt_done |-> o.stt_done,
     stt_path |-> IF "stt_path" \in o.fields THEN o.stt_path ELSE None,
     summarize_done |-> o.summarize_done,
     summary_path |->
       IF "summary_path" \in o.fields THEN o.summary_path ELSE None,
     embed_done |-> o.embed_done,
     deleted |-> IF "deleted" \in o.fields THEN o.deleted ELSE FALSE]

\* serde_json::from_str::<Vec<HistoryRecord>>(&data)
from_str(file) ==
    IF /\ file.kind = "json"
       /\ \A i \in 1..Len(file.items) : RequiredFields \subseteq file.items[i].fields
    THEN [ok |-> TRUE,
          records |-> [i \in 1..Len(file.items) |-> Deserialize(file.items[i])]]
    ELSE [ok |-> FALSE, records |-> <<>>]

\* "Migrate old records without file_path"
Migrate(rs) ==
    [i \in 1..Len(rs) |->
       IF rs[i].file_path = EmptyString
       THEN [rs[i] EXCEPT !.file_path = DownloadPath(rs[i].id)]
       ELSE rs[i]]

\* The records HistoryManager::load(path) builds from a file it could read:
\* `from_str(&data).unwrap_or_else(|_| Vec::new())`, then the migration.
LoadRecords(file) ==
    IF file.kind = "absent" THEN <<>>
    ELSE LET parsed == from_str(file)
         IN  Migrate(IF parsed.ok THEN parsed.records ELSE <<>>)

\* HistoryManager::load(path): fs::read_to_string may fail (`?`).
Load ==
    /\ hm = "unloaded"
    /\ \E read_ok \in BOOLEAN :
         /\ (history_file.kind = "absent") => read_ok
         /\ IF read_ok
            THEN /\ records' = LoadRecords(history_file)
                 /\ hm' = "loaded"
                 /\ hret' = HistoryReturn("load", {}, "Ok", FALSE, FALSE, <<>>)
            ELSE /\ records' = <<>>
                 /\ hm' = "load_err"
                 /\ hret' = HistoryReturn("load", {}, "Err", FALSE, FALSE, <<>>)
    /\ UNCHANGED history_file
    /\ UNCHANGED histOther

\* `self.records.iter_mut().find(|r| r.id == id)`: the index of the first
\* record with that id, 0 when there is none.
FindIndex(rs, id) ==
    IF \E i \in 1..Len(rs) : rs[i].id = id
    THEN CHOOSE i \in 1..Len(rs) :
           /\ rs[i].id = id
           /\ \A j \in 1..(i - 1) : rs[j].id # id
    ELSE 0

\* save(): to_string_pretty, then fs::write, which may fail leaving the file
\* as it was or cut short.  The set of <<file after, Ok or Err>>.
Save(rs) ==
    { [file |-> w.file, tag |-> IF w.ok THEN "Ok" ELSE "Err"] :
        w \in WriteOutcomes(history_file, to_string_pretty(rs), GarbageFile) }

\* add_record(record) for the record of a new upload: its id is fresh.
AddRecord(id) ==
    /\ hm = "loaded"
    /\ FindIndex(records, id) = 0
    /\ records' = Append(records, HistoryRecordNew(id))
    /\ \E s \in Save(records') :
         /\ history_file' = s.file
         /\ hret' = HistoryReturn("add_record", {id}, s.tag, FALSE, TRUE, <<>>)
    /\ UNCHANGED hm
    /\ UNCHANGED histOther

\* update_record that saves whether or not a record matched.
SavesAfterUpdate_Always(found) == TRUE

\* update_record: `if let Some(record) = .. { update_fn(record); self.save()?; }`
SavesAfterUpdate(found) == found

\* The mutator of the workflow's STT phase (workflow.rs 96-99).
SttDone(r) ==
    [r EXCEPT !.stt_done = TRUE, !.stt_path = Some(TranscriptPath(r.id))]

\* update_record(id, update_fn)
UpdateRecord(id) ==
    /\ hm = "loaded"
    /\ LET i == FindIndex(records, id)
           found == i # 0
       IN  /\ records' = IF found THEN [records EXCEPT ![i] = SttDone(@)]
                         ELSE records
           /\ IF SavesAfterUpdate(found)
              THEN \E s \in Save(records') :
                     /\ history_file' = s.file
                     /\ hret' = HistoryReturn("update_record", {id}, s.tag,
                                              found, TRUE, <<>>)
              ELSE /\ history_file' = history_file
                   /\ hret' = HistoryReturn("update_record", {id}, "Ok",
                                            found, FALSE, <<>>)
    /\ UNCHANGED hm
    /\ UNCHANGED histOther

\* delete_records that unsets nothing and sets nothing.
MarkDeleted_Skip(r) == r

\* `record.deleted = true`
MarkDeleted(r) == [r EXCEPT !.deleted = TRUE]

\* The loop of delete_records: each listed id marks its first match.  The
\* ids of this model's records are distinct, so the order of `ids` is
\* immaterial.
DeleteAll(rs, ids) ==
    [i \in 1..Len(rs) |->
       IF rs[i].id \in ids /\ FindIndex(rs, rs[i].id) = i
       THEN MarkDeleted(rs[i]) ELSE rs[i]]

\* delete_records(ids)
DeleteRecords(ids) ==
    /\ hm = "loaded"
    /\ records' = DeleteAll(records, ids)
    /\ \E s \in Save(records') :
         /\ history_file' = s.file
         /\ hret' = HistoryReturn("delete_records", ids, s.tag, FALSE, TRUE, <<>>)
    /\ UNCHANGED hm
    /\ UNCHANGED histOther

\* get_active_records()
get_active_records(rs) == SelectSeq(rs, LAMBDA r : ~r.deleted)

\* get_by_id(id): the first record with that id that is not deleted, as a
\* sequence of zero or one record.
get_by_id(rs, id) ==
    LET hits == SelectSeq(rs, LAMBDA r : r.id = id /\ ~r.deleted)
    IN  IF hits = <<>> THEN <<>> ELSE <<Head(hits)>>

GetActiveRecords ==
    /\ hm = "loaded"
    /\ hret' = HistoryReturn("get_active_records", {}, "Ok", FALSE, FALSE,
                             get_active_records(records))
    /\ UNCHANGED <<records, history_file, hm>>
    /\ UNCHANGED histOther

GetById(id) ==
    /\ hm = "loaded"
    /\ hret' = HistoryReturn("get_by_id", {id}, "Ok", FALSE, FALSE,
                             get_by_id(records, id))
    /\ UNCHANGED <<records, history_file, hm>>
    /\ UNCHANGED histOther

\* The files a starting process can find at the history path: none, one the
\* program wrote, one of an older version (no file_path, no deleted), JSON
\* of another shape, and an interrupted write.
InitialHistoryFiles ==
    { NoHistoryFile,
      JsonFile(<<>>),
      to_string_pretty(<<HistoryRecordNew("r1")>>),
      to_string_pretty(<<MarkDeleted(HistoryRecordNew("r1"))>>),
      JsonFile(<<JsonObject(RequiredFields, SttDone(HistoryRecordNew("r1")))>>),
      JsonFile(<<JsonObject({"id"}, HistoryRecordNew("r1"))>>),
      GarbageFile }

InitHist ==
    /\ IdleChunk
    /\ IdleSumm
    /\ IdleVec
    /\ IdleOpen
    /\ IdleConc
    /\ IdleWf
    /\ IdleRetry
    /\ IdleMore
    /\ records = <<>>
    /\ history_file \in InitialHistoryFiles
    /\ hm = "unloaded"
    /\ hret = NoHistoryReturn

NextHist ==
    \/ Load
    \/ \E id \in RecIds : AddRecord(id)
    \/ \E id \in RecIds : UpdateRecord(id)
    \/ \E ids \in SUBSET RecIds : DeleteRecords(ids)
    \/ GetActiveRecords
    \/ \E id \in RecIds : GetById(id)

SpecHist == InitHist /\ [][NextHist]_vars

-----------------------------------------------------------------------------
(* Concurrent workflows on the shared history store (workflow.rs 96-99,    *)
(* 137-140): `self.history.write().await.update_record(id, f)?`.  The      *)
(* write guard is taken, update_record runs under it (update_fn, the       *)
(* serialization, fs::write), and the guard is dropped at the end of the   *)
(* statement.                                                              *)

MaxUpdates == 2    \* update_record calls each workflow makes

\* The mutator of the workflow's summarize phase (workflow.rs 137-140).
SummarizeDone(r) ==
    [r EXCEPT !.summarize_done = TRUE,
              !.summary_path = Some(SummaryPath(r.id))]

\* w1 runs STT phases and w2 summarize phases: the flag its update_fn sets.
FlagOf(w) == IF w = "w1" THEN "stt_done" ELSE "summarize_done"

UpdateFn(w, r) == IF w = "w1" THEN SttDone(r) ELSE SummarizeDone(r)

HasFlag(r, flag) == IF flag = "stt_done" THEN r.stt_done ELSE r.summarize_done

\* A write() that does not wait for the holder of the lock.
CanAcquireWrite_Always(l) == TRUE

\* RwLock::write(): granted when nobody holds the lock.
CanAcquireWrite(l) == l = "free"

\* A workflow reaches an update_record statement for file `id`.
CallUpdate(w, id) ==
    /\ workers[w].pc = "idle"
    /\ workers[w].left > 0
    /\ workers' = [workers EXCEPT ![w] =
                     WorkerState("waiting", id, NoHistoryFile, @.left - 1)]
    /\ UNCHANGED <<hlock, applied, last_write, records, history_file>>
    /\ UNCHANGED concOther

\* `self.history.write().await`
AcquireWrite(w) ==
    /\ workers[w].pc = "waiting"
    /\ CanAcquireWrite(hlock)
    /\ hlock' = w
    /\ workers' = [workers EXCEPT ![w].pc = "locked"]
    /\ UNCHANGED <<applied, last_write, records, history_file>>
    /\ UNCHANGED concOther

\* update_record up to the save: find, update_fn; without a match the call
\* returns Ok and the guard is dropped.
Mutate(w) ==
    /\ workers[w].pc = "locked"
    /\ LET i == FindIndex(records, workers[w].id)
       IN  IF i # 0
           THEN /\ records' = [records EXCEPT ![i] = UpdateFn(w, @)]
                /\ applied' = applied \cup {<<workers[w].id, FlagOf(w)>>}
                /\ workers' = [workers EXCEPT ![w].pc = "mutated"]
                /\ UNCHANGED hlock
           ELSE /\ workers' = [workers EXCEPT ![w].pc = "idle"]
                /\ hlock' = "free"
                /\ UNCHANGED <<records, applied>>
    /\ UNCHANGED <<last_write, history_file>>
    /\ UNCHANGED concOther

\* save(): `let data = serde_json::to_string_pretty(&self.records)?`
SerializeRecords(w) ==
    /\ workers[w].pc = "mutated"
    /\ workers' = [workers EXCEPT ![w].pc = "serialized",
                                  ![w].data = to_string_pretty(records)]
    /\ UNCHANGED <<hlock, applied, last_write, records, history_file>>
    /\ UNCHANGED concOther

\* save(): `fs::write(&self.file_path, data)?`, the return of update_record
\* and the drop of the guard.
WriteAndRelease(w) ==
    /\ workers[w].pc = "serialized"
    /\ \E o \in WriteOutcomes(history_file, workers[w].data, GarbageFile) :
         /\ history_file' = o.file
         /\ last_write' = IF o.ok THEN "Ok" ELSE "Err"
    /\ workers' = [workers EXCEPT ![w].pc = "idle", ![w].data = NoHistoryFile]
    /\ hlock' = "free"
    /\ UNCHANGED <<applied, records>>
    /\ UNCHANGED concOther

\* A loaded store of one or two records, saved.
InitConc ==
    /\ IdleChunk
    /\ IdleSumm
    /\ IdleVec
    /\ IdleOpen
    /\ IdleWf
    /\ IdleRetry
    /\ IdleMore
    /\ records \in { <<HistoryRecordNew("r1")>>,
                     <<HistoryRecordNew("r1"), HistoryRecordNew("r2")>> }
    /\ history_file = to_string_pretty(records)
    /\ hm = "loaded"
    /\ hret = NoHistoryReturn
    /\ hlock = "free"
    /\ workers = [w \in Workflows |-> WorkerState("idle", "", NoHistoryFile, MaxUpdates)]
    /\ applied = {}
    /\ last_write = "none"

NextConc ==
    \/ \E w \in Workflows, id \in RecIds : CallUpdate(w, id)
    \/ \E w \in Workflows : AcquireWrite(w)
    \/ \E w \in Workflows : Mutate(w)
    \/ \E w \in Workflows : SerializeRecords(w)
    \/ \E w \in Workflows : WriteAndRelease(w)

SpecConc == InitConc /\ [][NextConc]_vars

-----------------------------------------------------------------------------
(* POST /process (routes/process.rs), JobManager (job_manager.rs), POST    *)
(* /cancel (routes/tasks.rs) and WorkflowExecutor::execute (workflow.rs)   *)
(* for one request on the file "r1".  execute() is cut at its calls of the *)
(* collaborators; cancel_task may run between any two steps.               *)

FileUuid == "r1"

\* The progress value of each update_progress call of workflow.rs, with STT
\* reported as finished before its results are written.
ProgressAt_Early(point) ==
    CASE point = "stt_start" -> 10
      [] point = "loading_audio" -> 20
      [] point = "writing_transcript" -> 50
      [] point = "stt_done" -> 40
      [] point = "summarize_skipped" -> 70
      [] point = "summarizing" -> 60
      [] point = "writing_summary" -> 75
      [] point = "summarize_done" -> 80
      [] point = "embedding" -> 85
      [] point = "embed_skipped" -> 90
      [] point = "embed_done" -> 95
      [] point = "finished" -> 100

\* The progress value of each update_progress call of workflow.rs.
ProgressAt(point) ==
    CASE point = "stt_start" -> 10
      [] point = "loading_audio" -> 20
      [] point = "writing_transcript" -> 40
      [] point = "stt_done" -> 50
      [] point = "summarize_skipped" -> 70
      [] point = "summarizing" -> 60
      [] point = "writing_summary" -> 75
      [] point = "summarize_done" -> 80
      [] point = "embedding" -> 85
      [] point = "embed_skipped" -> 90
      [] point = "embed_done" -> 95
      [] point = "finished" -> 100

\* The message execute() writes with each progress value.
MessageAt(point) ==
    CASE point = "stt_start" -> "Starting transcription..."
      [] point = "loading_audio" -> "Loading audio file..."
      [] point = "writing_transcript" -> "Writing transcription results..."
      [] point = "stt_done" -> "Transcription completed"
      [] point = "summarize_skipped" -> "Summarization skipped (no transcript)"
      [] point = "summarizing" -> "Generating summary..."
      [] point = "writing_summary" -> "Writing summary..."
      [] point = "summarize_done" -> "Summarization completed"
      [] point = "embedding" -> "Generating embedding..."
      [] point = "embed_skipped" -> "Embedding skipped (no text)"
      [] point = "embed_done" -> "Embedding completed"
      [] point = "finished" -> "Workflow completed"

\* JobManager::update_progress(task_id, progress, message)
update_progress(t, progress, message) ==
    IF t.exists THEN [t EXCEPT !.progress = progress, !.message = message]
    ELSE t

\* JobManager::complete_task
complete_task(t) ==
    IF t.exists
    THEN [t EXCEPT !.status = "Completed", !.progress = 100,
                   !.message = "Completed"]
    ELSE t

\* fail_task that leaves the last progress message in place.
fail_task_KeepsMessage(t, error) ==
    IF t.exists THEN [t EXCEPT !.status = "Failed"] ELSE t

\* JobManager::fail_task(task_id, error)
fail_task(t, error) ==
    IF t.exists THEN [t EXCEPT !.status = "Failed", !.message = error] ELSE t

\* cancel_task that writes the entry whether or not it was there.
cancel_task_Upsert(t) ==
    [t EXCEPT !.exists = TRUE, !.status = "Cancelled",
              !.message = "Cancelled by user"]

\* JobManager::cancel_task
cancel_task(t) ==
    IF t.exists
    THEN [t EXCEPT !.status = "Cancelled", !.message = "Cancelled by user"]
    ELSE t

\* format!("File not found: {}", req_clone.file_uuid)
FileNotFound(id) == "File not found: " \o id

\* execute() reports the progress points `points`, in order.
Report(points) ==
    /\ task' = update_progress(task, ProgressAt(points[Len(points)]),
                               MessageAt(points[Len(points)]))
    /\ progress_log' =
         progress_log \o [i \in 1..Len(points) |-> ProgressAt(points[i])]

\* A phase that is given up once the task is cancelled.
RunsPhase_UnlessCancelled(requested, status) ==
    requested /\ status # "Cancelled"

\* A phase that runs whether or not it was requested.
RunsPhase_Always(requested, status) == TRUE

\* `if options.run_stt {`, `if options.run_summarize {`, `if options.run_embed {`:
\* the task's status is not read.
RunsPhase(requested, status) == requested

\* An error that is kept while the embed phase still runs.
ReturnErr_RunsEmbed(e) == [wf EXCEPT !.pc = "embed", !.ret = "Err", !.err = e]

\* `?` on an Err: execute returns it; `e` is the error's text.
ReturnErr(e) == [wf EXCEPT !.pc = "returned", !.ret = "Err", !.err = e]

\* One call execute() makes: transcribe, summarize, add_document or
\* update_record, and what it was given.
Call(name, input) == [call |-> name, input |-> input]

Calls(cs) == run' = [run EXCEPT !.calls = @ \o cs]

\* The outcomes of the file writes of a phase: "none" written, the first
\* file cut short ("torn"), only the "first" file written, or "all".
WriteResults == {"none", "torn", "first", "all"}

\* The text file after the writes of a phase that produced `out`.
FileAfter(old, out, written) ==
    CASE written = "none" -> old
      [] written = "torn" -> "empty"
      [] OTHER -> out

\* A phase that goes on whatever the writes returned.
WroteAll_Unchecked(written) == TRUE

\* `tokio::fs::write(..).await?` on each file of the phase.
WroteAll(written) == written = "all"

\* The mutator of the embed phase (workflow.rs 187-189).
EmbedDone(r) == [r EXCEPT !.embed_done = TRUE]

\* The mutator of run_summarize_workflow (workflow.rs 295-297) sets
\* one_line_summary, a field outside the record of this model.
OneLineSummary(r) == r

\* The update_fn closure each phase of execute() passes to update_record.
PhaseUpdateFn(phase, r) ==
    CASE phase = "stt" -> SttDone(r)
      [] phase = "one_line" -> OneLineSummary(r)
      [] phase = "summarize" -> SummarizeDone(r)
      [] phase = "embed" -> EmbedDone(r)

\* update_record that pushes the updated record as a new one.
UpdateInPlace_Append(rs, i, r) == Append(rs, r)

\* `if let Some(record) = self.records.iter_mut().find(..) { update_fn(record)`:
\* the record is changed where it is.
UpdateInPlace(rs, i, r) == [rs EXCEPT ![i] = r]

\* `self.history.write().await.update_record(file_uuid, f)`: the records,
\* the file and the result after it.
UpdateHistory(phase) ==
    LET i == FindIndex(records, FileUuid)
    IN  IF i = 0
        THEN { [records |-> records, file |-> history_file, tag |-> "Ok"] }
        ELSE LET rs == UpdateInPlace(records, i,
                                     PhaseUpdateFn(phase, records[i]))
             IN  { [records |-> rs, file |-> sv.file, tag |-> sv.tag] :
                     sv \in Save(rs) }

\* process(): no phase requested is a 400; else create_task and the spawn
\* of the workflow, which fails the task when the upload is not found.
Process(options, file_found) ==
    /\ wf.pc = "request"
    /\ IF ~(options.run_stt \/ options.run_summarize \/ options.run_embed)
       THEN /\ wf' = [wf EXCEPT !.pc = "bad_request", !.options = options]
            /\ UNCHANGED <<task, run>>
       ELSE /\ task' = TaskInfo("Running", 0, "Starting...")
            /\ wf' = [wf EXCEPT !.pc = IF file_found THEN "stt" ELSE "no_file",
                                !.options = options]
            /\ run' = RunState(run.n + 1, <<>>,
                               Snapshot(records, wfiles, indexed), run.past)
    /\ UNCHANGED <<wfiles, indexed, progress_log, cancelled_at, records,
                   history_file>>
    /\ UNCHANGED wfOther

\* The spawned task when no uploaded file is found: fail_task.
FailNoFile ==
    /\ wf.pc = "no_file"
    /\ task' = fail_task(task, FileNotFound(FileUuid))
    /\ wf' = [wf EXCEPT !.pc = "done"]
    /\ UNCHANGED <<wfiles, indexed, progress_log, cancelled_at, run, records,
                   history_file>>
    /\ UNCHANGED wfOther

\* Phase 1 up to the transcription: progress 10 and 20.
SttBegin ==
    /\ wf.pc = "stt"
    /\ IF RunsPhase(wf.options.run_stt, task.status)
       THEN /\ Report(<<"stt_start", "loading_audio">>)
            /\ wf' = [wf EXCEPT !.pc = "transcribing"]
       ELSE /\ wf' = [wf EXCEPT !.pc = "summarize"]
            /\ UNCHANGED <<task, progress_log>>
    /\ UNCHANGED <<wfiles, indexed, cancelled_at, run, records, history_file>>
    /\ UNCHANGED wfOther

\* whisper.transcribe in spawn_blocking, progress 40, and the transcript and
\* segment files.
Transcribe ==
    /\ wf.pc = "transcribing"
    /\ Calls(<<Call("transcribe", "audio")>>)
    /\ \E out \in {"failed", "empty", "text"}, written \in WriteResults :
         IF out = "failed"
         THEN /\ wf' = ReturnErr("STT error")
              /\ UNCHANGED <<task, progress_log, wfiles>>
         ELSE /\ Report(<<"writing_transcript">>)
              /\ wfiles' =
                   [wfiles EXCEPT
                      !.transcript = FileAfter(@, out, written),
                      !.transcript_by = IF written = "none" THEN @ ELSE run.n]
              /\ wf' = IF WroteAll(written)
                       THEN [wf EXCEPT !.pc = "stt_history", !.tp = TRUE]
                       ELSE ReturnErr("IO error")
    /\ UNCHANGED <<indexed, cancelled_at, records, history_file>>
    /\ UNCHANGED wfOther

\* update_record(stt_done, stt_path) and progress 50.
SttHistory ==
    /\ wf.pc = "stt_history"
    /\ Calls(<<Call("update_record", "stt")>>)
    /\ \E u \in UpdateHistory("stt") :
         /\ records' = u.records
         /\ history_file' = u.file
         /\ IF u.tag = "Ok"
            THEN /\ Report(<<"stt_done">>)
                 /\ wf' = [wf EXCEPT !.pc = "summarize"]
            ELSE /\ wf' = ReturnErr("IO error")
                 /\ UNCHANGED <<task, progress_log>>
    /\ UNCHANGED <<wfiles, indexed, cancelled_at>>
    /\ UNCHANGED wfOther

\* A phase 2 that reads the saved transcript without asking whether the
\* file exists.
TranscriptSource_NoSkip ==
    IF wf.tp THEN "this_transcript" ELSE "saved_transcript"

\* A phase 2 that only summarizes a transcript of this call.
TranscriptSource_ThisOnly ==
    IF wf.tp THEN "this_transcript" ELSE "none"

\* Where phase 2 takes its transcript from: the transcript of this call,
\* else the saved one, else nowhere.
TranscriptSource ==
    IF wf.tp THEN "this_transcript"
    ELSE IF wfiles.transcript # "none" THEN "saved_transcript"
    ELSE "none"

\* `transcript_text` of phase 2: the transcript of this call, else the saved
\* one, else none ("skipped").
TranscriptText ==
    IF TranscriptSource = "none" THEN "skipped" ELSE wfiles.transcript

\* Phase 2 up to the summarizer: the transcript is read (which may fail);
\* progress 70 when there is none, 60 when there is text.
SummarizeBegin ==
    /\ wf.pc = "summarize"
    /\ IF ~RunsPhase(wf.options.run_summarize, task.status)
       THEN /\ wf' = [wf EXCEPT !.pc = "embed"]
            /\ UNCHANGED <<task, progress_log>>
       ELSE \E read_ok \in BOOLEAN :
              CASE TranscriptText = "skipped" ->
                     /\ read_ok
                     /\ Report(<<"summarize_skipped">>)
                     /\ wf' = [wf EXCEPT !.pc = "embed"]
                [] TranscriptText = "none" \/
                   (TranscriptText \in {"empty", "text"} /\ ~read_ok) ->
                     /\ wf' = ReturnErr("IO error")
                     /\ UNCHANGED <<task, progress_log>>
                [] TranscriptText = "empty" /\ read_ok ->
                     /\ wf' = [wf EXCEPT !.pc = "embed"]
                     /\ UNCHANGED <<task, progress_log>>
                [] TranscriptText = "text" /\ read_ok ->
                     /\ Report(<<"summarizing">>)
                     /\ wf' = [wf EXCEPT !.pc = "summarizing"]
    /\ UNCHANGED <<wfiles, indexed, cancelled_at, run, records, history_file>>
    /\ UNCHANGED wfOther

\* summarizer.summarize, progress 75, the summary and one-line files and
\* update_record(one_line_summary).
Summarize ==
    /\ wf.pc = "summarizing"
    /\ \E out \in {"failed", "empty", "text"}, written \in WriteResults :
         IF out = "failed"
         THEN /\ Calls(<<Call("summarize", TranscriptSource)>>)
              /\ wf' = ReturnErr("LLM error")
              /\ UNCHANGED <<task, progress_log, wfiles, records, history_file>>
         ELSE /\ Report(<<"writing_summary">>)
              /\ wfiles' =
                   [wfiles EXCEPT
                      !.summary = FileAfter(@, out, written),
                      !.summary_by = IF written = "none" THEN @ ELSE run.n]
              /\ IF WroteAll(written)
                 THEN /\ Calls(<<Call("summarize", TranscriptSource),
                                 Call("update_record", "one_line")>>)
                      /\ \E u \in UpdateHistory("one_line") :
                           /\ records' = u.records
                           /\ history_file' = u.file
                           /\ wf' = IF u.tag = "Ok"
                                    THEN [wf EXCEPT !.pc = "summarize_history",
                                                    !.sp = TRUE]
                                    ELSE ReturnErr("IO error")
                 ELSE /\ Calls(<<Call("summarize", TranscriptSource)>>)
                      /\ wf' = ReturnErr("IO error")
                      /\ UNCHANGED <<records, history_file>>
    /\ UNCHANGED <<indexed, cancelled_at>>
    /\ UNCHANGED wfOther

\* update_record(summarize_done, summary_path) and progress 80.
SummarizeHistory ==
    /\ wf.pc = "summarize_history"
    /\ Calls(<<Call("update_record", "summarize")>>)
    /\ \E u \in UpdateHistory("summarize") :
         /\ records' = u.records
         /\ history_file' = u.file
         /\ IF u.tag = "Ok"
            THEN /\ Report(<<"summarize_done">>)
                 /\ wf' = [wf EXCEPT !.pc = "embed"]
            ELSE /\ wf' = ReturnErr("IO error")
                 /\ UNCHANGED <<task, progress_log>>
    /\ UNCHANGED <<wfiles, indexed, cancelled_at>>
    /\ UNCHANGED wfOther

\* A phase 3 that prefers the transcript of this call to its summary.
EmbedSource_TranscriptFirst ==
    IF wf.tp THEN "this_transcript"
    ELSE IF wf.sp THEN "this_summary"
    ELSE IF wfiles.summary # "none" THEN "saved_summary"
    ELSE IF wfiles.transcript # "none" THEN "saved_transcript"
    ELSE "none"

\* Where phase 3 takes its text from: the summary of this call, else the
\* transcript of this call, else the saved summary, else the saved
\* transcript, else nowhere.
EmbedSource ==
    IF wf.sp THEN "this_summary"
    ELSE IF wf.tp THEN "this_transcript"
    ELSE IF wfiles.summary # "none" THEN "saved_summary"
    ELSE IF wfiles.transcript # "none" THEN "saved_transcript"
    ELSE "none"

\* `text_to_embed` of phase 3: the summary of this call, else the transcript
\* of this call, else the saved summary, else the saved transcript, else
\* none ("skipped").
TextToEmbed ==
    CASE EmbedSource \in {"this_summary", "saved_summary"} -> wfiles.summary
      [] EmbedSource \in {"this_transcript", "saved_transcript"} ->
           wfiles.transcript
      [] EmbedSource = "none" -> "skipped"

\* Phase 3 up to add_document: the text is read (which may fail); progress
\* 90 when there is none, 85 when there is text.
EmbedBegin ==
    /\ wf.pc = "embed"
    /\ IF ~RunsPhase(wf.options.run_embed, task.status)
       THEN /\ wf' = [wf EXCEPT !.pc = "finish"]
            /\ UNCHANGED <<task, progress_log>>
       ELSE \E read_ok \in BOOLEAN :
              CASE TextToEmbed = "skipped" ->
                     /\ read_ok
                     /\ Report(<<"embed_skipped">>)
                     /\ wf' = [wf EXCEPT !.pc = "finish"]
                [] TextToEmbed = "none" \/
                   (TextToEmbed \in {"empty", "text"} /\ ~read_ok) ->
                     /\ wf' = ReturnErr("IO error")
                     /\ UNCHANGED <<task, progress_log>>
                [] TextToEmbed = "empty" /\ read_ok ->
                     /\ wf' = [wf EXCEPT !.pc = "finish"]
                     /\ UNCHANGED <<task, progress_log>>
                [] TextToEmbed = "text" /\ read_ok ->
                     /\ Report(<<"embedding">>)
                     /\ wf' = [wf EXCEPT !.pc = "embedding"]
    /\ UNCHANGED <<wfiles, indexed, cancelled_at, run, records, history_file>>
    /\ UNCHANGED wfOther

\* run_embed_workflow: the metadata and vector_search.add_document.
Embed ==
    /\ wf.pc = "embedding"
    /\ Calls(<<Call("add_document", EmbedSource)>>)
    /\ \E added \in BOOLEAN :
         IF added
         THEN /\ indexed' = TRUE
              /\ wf' = [wf EXCEPT !.pc = "embed_history"]
         ELSE /\ wf' = ReturnErr("Vector search error")
              /\ UNCHANGED indexed
    /\ UNCHANGED <<task, wfiles, progress_log, cancelled_at, records,
                   history_file>>
    /\ UNCHANGED wfOther

\* update_record(embed_done) and progress 95.
EmbedHistory ==
    /\ wf.pc = "embed_history"
    /\ Calls(<<Call("update_record", "embed")>>)
    /\ \E u \in UpdateHistory("embed") :
         /\ records' = u.records
         /\ history_file' = u.file
         /\ IF u.tag = "Ok"
            THEN /\ Report(<<"embed_done">>)
                 /\ wf' = [wf EXCEPT !.pc = "finish"]
            ELSE /\ wf' = ReturnErr("IO error")
                 /\ UNCHANGED <<task, progress_log>>
    /\ UNCHANGED <<wfiles, indexed, cancelled_at>>
    /\ UNCHANGED wfOther

\* Progress 100 and `Ok(result)`.
Finish ==
    /\ wf.pc = "finish"
    /\ Report(<<"finished">>)
    /\ wf' = [wf EXCEPT !.pc = "returned", !.ret = "Ok"]
    /\ UNCHANGED <<wfiles, indexed, cancelled_at, run, records, history_file>>
    /\ UNCHANGED wfOther

\* The spawned task after execute(): complete_task on Ok, fail_task on Err.
HandleResult ==
    /\ wf.pc = "returned"
    /\ task' = IF wf.ret = "Ok" THEN complete_task(task)
               ELSE fail_task(task, wf.err)
    /\ wf' = [wf EXCEPT !.pc = "done"]
    /\ UNCHANGED <<wfiles, indexed, progress_log, cancelled_at, run, records,
                   history_file>>
    /\ UNCHANGED wfOther

\* POST /cancel for the task: JobManager::cancel_task.
CancelTask ==
    /\ task.exists
    /\ task' = cancel_task(task)
    /\ cancelled_at' = IF cancelled_at = "none" THEN wf.pc ELSE cancelled_at
    /\ UNCHANGED <<wf, wfiles, indexed, progress_log, run, records,
                   history_file>>
    /\ UNCHANGED wfOther

\* A loaded history store with or without the record of the file, and the
\* output files of earlier runs.
InitWf ==
    /\ IdleChunk
    /\ IdleSumm
    /\ IdleVec
    /\ IdleOpen
    /\ IdleConc
    /\ IdleRetry
    /\ IdleMore
    /\ records \in {<<>>, <<HistoryRecordNew(FileUuid)>>}
    /\ history_file = to_string_pretty(records)
    /\ hm = "loaded"
    /\ hret = NoHistoryReturn
    /\ task = NoTask
    /\ wf = NoWorkflow
    /\ wfiles \in { OutputFiles(t, 0, sm, 0) :
                      t \in {"none", "empty", "text"}, sm \in {"none", "text"} }
    /\ indexed = FALSE
    /\ progress_log = <<>>
    /\ cancelled_at = "none"
    /\ run = NoRun

NextWf ==
    \/ \E a \in BOOLEAN, b \in BOOLEAN, c \in BOOLEAN, found \in BOOLEAN :
         Process(WorkflowOptions(a, b, c), found)
    \/ FailNoFile
    \/ SttBegin
    \/ Transcribe
    \/ SttHistory
    \/ SummarizeBegin
    \/ Summarize
    \/ SummarizeHistory
    \/ EmbedBegin
    \/ Embed
    \/ EmbedHistory
    \/ Finish
    \/ HandleResult
    \/ CancelTask

SpecWf == InitWf /\ [][NextWf]_vars

-----------------------------------------------------------------------------
(* A sequence of POST /process requests for one upload.                    *)

MaxRuns == 3    \* requests made for the upload

\* The id of another upload in the history.
OtherUuid == "r2"

\* The next POST /process of the client: a new task and a new execute().
NewRequest ==
    /\ wf.pc \in {"done", "bad_request"}
    /\ run.n < MaxRuns
    /\ wf' = NoWorkflow
    /\ task' = NoTask
    /\ progress_log' = <<>>
    /\ run' = IF wf.pc = "done"
              THEN [run EXCEPT !.past = Append(@, Outcome(wf.options, wf.ret))]
              ELSE run
    /\ UNCHANGED <<wfiles, indexed, cancelled_at, records, history_file>>
    /\ UNCHANGED wfOther

\* After upload_file: add_record(HistoryRecord::new(uuid, filename)), next
\* to the record of another upload; no output file yet.
InitRuns ==
    /\ IdleChunk
    /\ IdleSumm
    /\ IdleVec
    /\ IdleOpen
    /\ IdleConc
    /\ IdleRetry
    /\ IdleMore
    /\ records \in { <<HistoryRecordNew(FileUuid)>>,
                     <<HistoryRecordNew(FileUuid), HistoryRecordNew(OtherUuid)>> }
    /\ history_file = to_string_pretty(records)
    /\ hm = "loaded"
    /\ hret = NoHistoryReturn
    /\ task = NoTask
    /\ wf = NoWorkflow
    /\ wfiles = OutputFiles("none", 0, "none", 0)
    /\ indexed = FALSE
    /\ progress_log = <<>>
    /\ cancelled_at = "none"
    /\ run = NoRun

NextRuns ==
    \/ \E a \in BOOLEAN, b \in BOOLEAN, c \in BOOLEAN, found \in BOOLEAN :
         Process(WorkflowOptions(a, b, c), found)
    \/ FailNoFile
    \/ SttBegin
    \/ Transcribe
    \/ SttHistory
    \/ SummarizeBegin
    \/ Summarize
    \/ SummarizeHistory
    \/ EmbedBegin
    \/ Embed
    \/ EmbedHistory
    \/ Finish
    \/ HandleResult
    \/ NewRequest

SpecRuns == InitRuns /\ [][NextRuns]_vars

-----------------------------------------------------------------------------
(* llm/src/client.rs: OllamaClient::generate and OllamaClient::embed        *)

max_retries == 3    \* generate_with_retry(request, 3), embed_with_retry(.., 3)

\* The errors of one try_generate or try_embed.
TryErrors(op) ==
    IF op = "generate"
    THEN {"Failed to send request", "Ollama API error",
          "Failed to parse response", "Empty response from Ollama"}
    ELSE {"Failed to send embedding request", "Ollama embedding API error",
          "Failed to parse embedding response", "Empty embedding from Ollama"}

\* What one attempt returned: Ok with the response of that attempt, or Err.
TryResult(ok, attempt, error) ==
    [ok |-> ok, attempt |-> attempt, error |-> error]

\* A backoff that is slept after every failed attempt.
SleepsAfter_Always(attempt, retries) == TRUE

\* `if attempt < max_retries {` .. `tokio::time::sleep(delay).await`
SleepsAfter(attempt, retries) == attempt < retries

\* Duration::from_secs(2u64.pow(attempt - 1)), in seconds
Delay(attempt) == 2 ^ (attempt - 1)

\* generate(request) and embed(model, text): the loop `for attempt in
\* 1..=max_retries` begins.
ClientCall(op) ==
    /\ ollama.pc = "idle"
    /\ ollama' = [ollama EXCEPT !.pc = "try", !.op = op, !.attempt = 1]
    /\ UNCHANGED retryOther

\* One try_generate or try_embed and the match on its result.
TryOnce ==
    /\ ollama.pc = "try"
    /\ \E ok \in BOOLEAN, e \in TryErrors(ollama.op) :
         IF ok
         THEN ollama' =
                [ollama EXCEPT
                   !.tries = Append(@, TryResult(TRUE, ollama.attempt, "")),
                   !.ret = TryResult(TRUE, ollama.attempt, ""),
                   !.pc = "returned"]
         ELSE ollama' =
                [ollama EXCEPT
                   !.tries = Append(@, TryResult(FALSE, ollama.attempt, e)),
                   !.last_error = e,
                   !.pc = IF SleepsAfter(ollama.attempt, max_retries)
                          THEN "sleep" ELSE "loop"]
    /\ UNCHANGED retryOther

\* tokio::time::sleep(delay)
Sleep ==
    /\ ollama.pc = "sleep"
    /\ ollama' = [ollama EXCEPT !.sleeps = Append(@, Delay(ollama.attempt)),
                                !.pc = "loop"]
    /\ UNCHANGED retryOther

\* The end of an iteration: the next attempt, or after the last one
\* `Err(last_error.unwrap_or_else(|| anyhow!("All retries failed")))`.
LoopNext ==
    /\ ollama.pc = "loop"
    /\ ollama' =
         IF ollama.attempt < max_retries
         THEN [ollama EXCEPT !.attempt = @ + 1, !.pc = "try"]
         ELSE [ollama EXCEPT
                 !.ret = TryResult(FALSE, ollama.attempt,
                                   IF ollama.last_error = ""
                                   THEN "All retries failed"
                                   ELSE ollama.last_error),
                 !.pc = "returned"]
    /\ UNCHANGED retryOther

InitRetry ==
    /\ IdleChunk
    /\ IdleSumm
    /\ IdleVec
    /\ IdleServer

NextRetry ==
    \/ \E op \in {"generate", "embed"} : ClientCall(op)
    \/ TryOnce
    \/ Sleep
    \/ LoopNext

SpecRetry == InitRetry /\ [][NextRetry]_vars

-----------------------------------------------------------------------------
(* Properties of chunk_text                                                *)

\* The allocation limit is met only by a call whose window has come back to
\* a start it already had: the loop's state is `start` alone, so that call
\* would never return.
OomOnlyWhenStalled ==
    cpc = "oom" =>
        \E i, j \in 1..Len(chunks) : i < j /\ chunks[i].start = chunks[j].start

\* C1: chunk_text terminates and returns its chunk list, for every text,
\* max_tokens > 0 and overlap >= 0: the window start eventually reaches the
\* end of the text.
C1_ChunkTextReturns == <>(cpc = "done")

\* C3: from each chunk to the next, both the start offset and the end offset
\* strictly increase: the window never stalls or moves backwards.
C3_WindowStrictlyAdvances ==
    \A i \in 1..(Len(chunks) - 1) :
        /\ chunks[i + 1].start > chunks[i].start
        /\ chunks[i + 1].end > chunks[i].end

\* C4: the chunks cover the text with no gaps: the first chunk starts at 0,
\* every later chunk starts at or before the end of the one before it, each
\* chunk holds text[start..end), and the list chunk_text returns is not
\* empty and its last chunk ends at len(text).
C4_ChunksCoverText ==
    /\ \A i \in 1..Len(chunks) :
          /\ i = 1 => chunks[i].start = 0
          /\ i > 1 => chunks[i].start <= chunks[i - 1].end
          /\ chunks[i].start <= chunks[i].end
          /\ chunks[i].end <= text_len
          /\ chunks[i].text = SubSeq(text, chunks[i].start + 1, chunks[i].end)
    /\ cpc = "done" =>
          /\ Len(chunks) >= 1
          /\ chunks[Len(chunks)].end = text_len

\* A returned list of several chunks, one of them cut at a sentence ending
\* before the raw window boundary.
C4_Witness ==
    /\ cpc = "done"
    /\ Len(chunks) >= 2
    /\ \E i \in 1..(Len(chunks) - 1) :
          chunks[i].end - chunks[i].start < max_chars

-----------------------------------------------------------------------------
(* Properties of Summarizer::summarize                                     *)

IsReduce(c) == c.prompt = "reduce_prompt"
Failed(c) == c.out[1] = "fail"
Returned == spc = "done"
ReturnedOk == spc = "done" /\ sresult.tag = "Ok"
MapReducePath == s_text_len >= DirectLimit
CeilDiv(n, d) == (n + d - 1) \div d

C5_ReduceCallShape ==
    (ReturnedOk /\ MapReducePath) =>
        LET n == s_nchunks
            nb == CeilDiv(n, 10)
            reduces == IF n <= 10 THEN 1 ELSE nb + 1
            last == Len(calls)
        IN  /\ last = n + reduces + 1
            /\ \A i \in 1..n :
                 /\ calls[i].prompt = "chunk_prompt"
                 /\ calls[i].parts = <<ChunkTextOf(i)>>
            /\ \A k \in (n + 1)..(n + reduces) : IsReduce(calls[k])
            /\ n <= 10 =>
                 calls[n + 1].parts = [i \in 1..n |-> calls[i].out]
            /\ n > 10 =>
                 /\ \A b \in 1..nb :
                      LET lo == (b - 1) * 10
                          size == IF b < nb THEN 10 ELSE n - lo
                      IN  calls[n + b].parts = [j \in 1..size |-> calls[lo + j].out]
                 /\ calls[n + nb + 1].parts = [b \in 1..nb |-> calls[n + b].out]
            /\ calls[last].prompt = "one_line_prompt"
            /\ calls[last].parts = <<calls[last - 1].out>>
            /\ sresult.text = calls[last - 1].out

\* A successful batch reduce whose last batch is a short one.
C5_Witness ==
    /\ ReturnedOk
    /\ MapReducePath
    /\ s_nchunks > 10
    /\ s_nchunks % 10 # 0

\* C6: a failed generation call is the last call summarize makes, and
\* summarize then returns the failure, not a Summary.
C6_FailurePropagates ==
    /\ \A k \in 1..Len(calls) :
         Failed(calls[k]) =>
             /\ k = Len(calls)
             /\ Returned
             /\ sresult.tag = "Err"
    /\ sresult.tag = "Ok" => \A k \in 1..Len(calls) : ~Failed(calls[k])

\* A first-level reduce that failed after all chunks had been summarized.
C6_Witness ==
    /\ Returned
    /\ sresult.tag = "Err"
    /\ Len(calls) > s_nchunks
    /\ s_nchunks > 10
    /\ Failed(calls[Len(calls)])
    /\ IsReduce(calls[Len(calls)])

-----------------------------------------------------------------------------
(* Properties of the vector index and search engine                        *)

IsSearch(r) == r.op \in {"search", "search_with_filters"}
ActiveIds(es) == { d \in DOMAIN es : ~es[d].deleted }
ResultIds(r) == { r.results[i].doc_id : i \in 1..Len(r.results) }

\* C7: an add_document whose embedding call fails returns the error and
\* leaves the in-memory index, the index file, the embedding files and the
\* embeddings directory exactly as they were.
C7_EmbedFailureCommitsNothing ==
    [][ (vret'.op = "add_document" /\ vret'.embedded = "failed") =>
            /\ vret'.tag = "Err"
            /\ entries' = entries
            /\ index_file' = index_file
            /\ embedding_files' = embedding_files
            /\ embedding_dir' = embedding_dir ]_vars

\* A failed embedding on an engine that already holds a saved entry.
C7_Witness ==
    /\ vret.op = "add_document"
    /\ vret.embedded = "failed"
    /\ DOMAIN entries # {}
    /\ index_file.state = "ok"

\* C8: delete_document on an existing entry keeps the entry, with
\* deleted = true, and its embedding file, and takes it out of
\* active_entries(); stats() does not count deleted entries and no search
\* returns one; delete_document on an absent doc_id changes no entry and
\* returns Ok (when the index file is written).
C8_Step ==
    /\ vret'.op = "delete_document" =>
         LET d == vret'.doc_id
         IN  IF d \in DOMAIN entries
             THEN /\ DOMAIN entries' = DOMAIN entries
                  /\ entries'[d] = [entries[d] EXCEPT !.deleted = TRUE]
                  /\ \A x \in DOMAIN entries \ {d} : entries'[x] = entries[x]
                  /\ \A e \in active_entries(entries') : e.doc_id # d
                  /\ embedding_files' = embedding_files
                  /\ entries[d].embedding_path \in DOMAIN embedding_files'
             ELSE /\ entries' = entries
                  /\ vret'.tag = "Ok" \/ vret'.err = "io"
    /\ vret'.op = "stats" =>
         vret'.count = Cardinality({ d \in DOMAIN entries' : ~entries'[d].deleted })
    /\ (IsSearch(vret') /\ vret'.tag = "Ok") =>
         \A d \in ResultIds(vret') : d \in DOMAIN entries' /\ ~entries'[d].deleted

\* C8: every step keeps soft-deleted entries in the index and on disk and
\* out of active_entries(), stats() and the search results (C8_Step).
C8_SoftDelete == [][C8_Step]_vars

\* A search that returns a document while another one is soft-deleted.
C8_Witness ==
    /\ IsSearch(vret)
    /\ vret.tag = "Ok"
    /\ vret.results # <<>>
    /\ \E d \in DOMAIN entries : entries[d].deleted

\* The date filter as the claim states it, bounds inclusive.
InDateRange(ts, start_date, end_date) ==
    /\ (start_date # NoDate \/ end_date # NoDate) => ts # NoDate
    /\ start_date # NoDate => start_date <= ts
    /\ end_date # NoDate => ts <= end_date

\* C9: every entry a search returns is in the date range, an entry without
\* timestamp only when no bound is given; and a search that top_k does not
\* cut short returns every active entry in the range.
C9_DateFilter ==
    (IsSearch(vret) /\ vret.tag = "Ok") =>
        /\ \A d \in ResultIds(vret) :
             InDateRange(entries[d].metadata.timestamp,
                         vret.start_date, vret.end_date)
        /\ Len(vret.results) < vret.top_k =>
             \A d \in ActiveIds(entries) :
                 InDateRange(entries[d].metadata.timestamp,
                             vret.start_date, vret.end_date)
                 => d \in ResultIds(vret)

\* A search with both bounds given that returns an entry whose timestamp is
\* the start bound and leaves out an active entry outside the range.
C9_Witness ==
    /\ vret.op = "search_with_filters"
    /\ vret.tag = "Ok"
    /\ vret.start_date # NoDate
    /\ vret.end_date # NoDate
    /\ \E d \in ResultIds(vret) : entries[d].metadata.timestamp = vret.start_date
    /\ \E d \in ActiveIds(entries) : d \notin ResultIds(vret)
    /\ Len(vret.results) < vret.top_k

\* C10: a search returns at most top_k results, in non-increasing order of
\* score, and no active entry in the date range that it leaves out scores
\* strictly higher than one it returns.
C10_TopKByScore ==
    (IsSearch(vret) /\ vret.tag = "Ok") =>
        LET rs == vret.results
            left_out == { d \in ActiveIds(entries) :
                            /\ d \notin ResultIds(vret)
                            /\ InDateRange(entries[d].metadata.timestamp,
                                           vret.start_date, vret.end_date) }
        IN  /\ Len(rs) <= vret.top_k
            /\ \A i \in 1..(Len(rs) - 1) : rs[i].score >= rs[i + 1].score
            /\ \A d \in left_out, i \in 1..Len(rs) :
                 cosine_similarity(vret.query, embedding_files[d].v) <= rs[i].score
            /\ \A i \in 1..Len(rs) :
                 rs[i].score = cosine_similarity(vret.query,
                                   embedding_files[rs[i].doc_id].v)

\* Two results of different scores, and a search cut to the better of two
\* candidates.
C10_Witness ==
    /\ IsSearch(vret)
    /\ vret.tag = "Ok"
    /\ \/ /\ Len(vret.results) = 2
          /\ vret.results[1].score > vret.results[2].score
       \/ /\ Len(vret.results) = 1
          /\ \E d \in ActiveIds(entries) :
               /\ d \notin ResultIds(vret)
               /\ cosine_similarity(vret.query, embedding_files[d].v)
                      < vret.results[1].score

-----------------------------------------------------------------------------
(* Properties of the engine opened over a persisted index                  *)

\* C11: the model and dimension recorded in the persisted index never
\* change once it is written, the running engine embeds with the recorded
\* model only (an index of another model is not opened), and so every
\* embedding request of add_document and search names the recorded model.
C11_RecordedModelUsed ==
    /\ engine.open => engine.embedding_model = engine.index.embedding_model
    /\ (engine.open /\ last_embed # NoEmbed) =>
          last_embed.model = engine.index.embedding_model
    /\ \A d \in Docs :
          (disk_index.exists /\ disk_index.entries[d] = "active") =>
             disk_embeddings[d].model = disk_index.embedding_model

\* C12: every non-deleted entry of the index names an existing vector file
\* whose vector has embedding_dim numbers.
C12_VectorLengthMatchesDim ==
    engine.open =>
      \A d \in Docs :
         engine.index.entries[d] = "active" =>
            /\ disk_embeddings[d].exists
            /\ disk_embeddings[d].len = engine.index.embedding_dim

-----------------------------------------------------------------------------
(* Properties of HistoryManager                                            *)

\* C13: load of an existing history file whose content is not a list of
\* HistoryRecord returns an error.
C13_CorruptLoadFails ==
    (/\ hret.op = "load"
     /\ history_file.kind # "absent"
     /\ ~from_str(history_file).ok)
    => hret.tag = "Err"

HasId(rs, id) == \E i \in 1..Len(rs) : rs[i].id = id

ItemsOf(file, id) ==
    { i \in 1..Len(file.items) : file.items[i].id = id }

C15_Step ==
    hm = "loaded" =>
      \* no operation removes or replaces a stored record
      /\ Len(records') >= Len(records)
      /\ \A i \in 1..Len(records) : records'[i].id = records[i].id
      \* a deleted record is in no active view
      /\ \A i \in 1..Len(records') :
           records'[i].deleted =>
             /\ ~HasId(get_active_records(records'), records'[i].id)
             /\ get_by_id(records', records'[i].id) = <<>>
      /\ hret'.op = "get_active_records" =>
           \A i \in 1..Len(hret'.found) : ~hret'.found[i].deleted
      \* delete_records marks every listed record that exists, in memory and,
      \* when it returns Ok, in the file
      /\ hret'.op = "delete_records" =>
           \A id \in hret'.ids :
              HasId(records, id) =>
                /\ records'[FindIndex(records, id)].id = id
                /\ records'[FindIndex(records, id)].deleted
                /\ hret'.tag = "Ok" =>
                     /\ history_file'.kind = "json"
                     /\ ItemsOf(history_file', id) # {}
                     /\ \A i \in ItemsOf(history_file', id) :
                          /\ "deleted" \in history_file'.items[i].fields
                          /\ history_file'.items[i].deleted

\* C15: delete_records marks every listed record that exists as deleted; a
\* deleted record is in neither get_active_records() nor get_by_id() but
\* stays in the journal and in the saved file; the number of records never
\* decreases (C15_Step, of every step).
C15_SoftDeleteKeepsRecords == [][C15_Step]_vars

C15_Witness ==
    /\ hret.op = "delete_records"
    /\ hret.tag = "Ok"
    /\ Len(records) = 2
    /\ \E id \in hret.ids : HasId(records, id)
    /\ \E i \in 1..Len(records) : ~records[i].deleted

IsMutation(op) == op \in {"add_record", "update_record", "delete_records"}

\* C16 as stated: after every successful add_record, update_record or
\* delete_records, loading the file gives the in-memory list.
C16_ReloadEqualsMemory ==
    (IsMutation(hret.op) /\ hret.tag = "Ok") =>
       LoadRecords(history_file) = records

\* C16: after every successful add_record, update_record or delete_records
\* that saved (every one but an update_record whose id matched no record),
\* loading the file gives the in-memory list.
C16_ReloadAfterSave ==
    (IsMutation(hret.op) /\ hret.tag = "Ok" /\ hret.wrote) =>
       LoadRecords(history_file) = records

C16_Witness ==
    /\ hret.op = "update_record"
    /\ hret.tag = "Ok"
    /\ hret.wrote
    /\ Len(records) = 2
    /\ \E i \in 1..Len(records) : records[i].deleted
    /\ LoadRecords(history_file) = records

C17_Step ==
    (/\ hm = "loaded"
     /\ hret'.op = "update_record"
     /\ \A id \in hret'.ids : ~HasId(records, id))
    => /\ hret'.tag = "Ok"
       /\ ~hret'.invoked
       /\ ~hret'.wrote
       /\ records' = records
       /\ history_file' = history_file

\* C17: update_record with an id that matches no record returns Ok, does not
\* run the mutator, changes no record and does not write the file
\* (C17_Step, of every step).
C17_UpdateMissingIsNoOp == [][C17_Step]_vars

C17_Witness ==
    /\ hret.op = "update_record"
    /\ ~hret.invoked
    /\ hret.tag = "Ok"
    /\ records # <<>>
    /\ \A id \in hret.ids : ~HasId(records, id)
    /\ LoadRecords(history_file) # records

-----------------------------------------------------------------------------
(* Properties of concurrent update_record calls                            *)

RecordOf(rs, id) == rs[FindIndex(rs, id)]

\* C14: every update_fn that ran is in the in-memory records, whatever the
\* interleaving; and once the lock is free after a write that succeeded,
\* the file holds every one of them too (it loads to the in-memory list).
C14_NoLostUpdate ==
    /\ \A a \in applied : HasFlag(RecordOf(records, a[1]), a[2])
    /\ (hlock = "free" /\ last_write = "Ok") =>
          /\ LoadRecords(history_file) = records
          /\ \A a \in applied :
                HasFlag(RecordOf(LoadRecords(history_file), a[1]), a[2])

C14_Witness ==
    /\ hlock = "free"
    /\ last_write = "Ok"
    /\ \A w \in Workflows : workers[w].pc = "idle" /\ workers[w].left = 0
    /\ {<<"r1", "stt_done">>, <<"r1", "summarize_done">>,
        <<"r2", "summarize_done">>} \subseteq applied

-----------------------------------------------------------------------------
(* Properties of the job registry and the workflow                         *)

TerminalStatus == {"Completed", "Failed", "Cancelled"}

\* C18: a task whose status is Completed, Failed or Cancelled keeps that
\* status in every later step.
C18_TerminalIsFinal ==
    [][(task.exists /\ task.status \in TerminalStatus)
         => task'.status = task.status]_vars

InFlight == {"stt", "transcribing", "stt_history", "summarize", "summarizing",
             "summarize_history", "embed", "embedding", "embed_history",
             "finish"}

TheRecord == records[FindIndex(records, FileUuid)]

\* C19: a workflow whose task was cancelled while it ran, and which
\* returned Ok, has still run every requested phase that had its text: the
\* transcript, the summary and the index entry are written and the history
\* flags of the record are set.
C19_CancelDoesNotAbort ==
    (wf.ret = "Ok" /\ cancelled_at \in InFlight) =>
       /\ wf.options.run_stt =>
            /\ wf.tp
            /\ wfiles.transcript # "none"
            /\ HasId(records, FileUuid) => TheRecord.stt_done
       /\ (wf.options.run_summarize /\ TranscriptText = "text") =>
            /\ wf.sp
            /\ wfiles.summary # "none"
            /\ HasId(records, FileUuid) => TheRecord.summarize_done
       /\ (wf.options.run_embed /\ TextToEmbed = "text") =>
            /\ indexed
            /\ HasId(records, FileUuid) => TheRecord.embed_done

C19_Witness ==
    /\ wf.ret = "Ok"
    /\ cancelled_at = "stt"
    /\ task.status = "Cancelled"
    /\ wf.options = WorkflowOptions(TRUE, TRUE, TRUE)
    /\ HasId(records, FileUuid)
    /\ TheRecord.stt_done /\ TheRecord.summarize_done /\ TheRecord.embed_done
    /\ indexed

\* C20: the progress values one execute() writes never decrease, and an
\* execute() that returns Ok wrote 100 last.
C20_ProgressMonotone ==
    /\ \A i \in 1..(Len(progress_log) - 1) :
          progress_log[i] <= progress_log[i + 1]
    /\ wf.ret = "Ok" =>
          /\ progress_log # <<>>
          /\ progress_log[Len(progress_log)] = 100

C20_Witness ==
    /\ wf.ret = "Ok"
    /\ progress_log = <<10, 20, 40, 50, 60, 75, 80, 85, 95, 100>>

-----------------------------------------------------------------------------
(* Properties of POST /process and WorkflowExecutor::execute                *)

\* C21: when execute() returns an error, or the uploaded file is not found,
\* the spawned task leaves the task Failed with the error's text as its
\* message; when execute() returns Ok it leaves the task Completed with
\* progress 100; and a request that did not return Ok never has a
\* Completed task.
C21_ResultDecidesStatus ==
    [][ /\ (wf.pc = "returned" /\ wf'.pc = "done" /\ wf.ret = "Err") =>
             /\ task'.status = "Failed"
             /\ task'.message = wf.err
             /\ wf.err # ""
        /\ (wf.pc = "no_file" /\ wf'.pc = "done") =>
             /\ task'.status = "Failed"
             /\ task'.message = "File not found: " \o FileUuid
        /\ (wf.pc = "returned" /\ wf'.pc = "done" /\ wf.ret = "Ok") =>
             /\ task'.status = "Completed"
             /\ task'.progress = 100
        /\ task'.status = "Completed" => (wf'.pc = "done" /\ wf'.ret = "Ok")
      ]_vars

C21_Witness ==
    /\ wf.pc = "done"
    /\ wf.ret = "Err"
    /\ task.status = "Failed"
    /\ task.message = "LLM error"
    /\ progress_log = <<10, 20, 40, 50, 60>>

\* The place of a call in the order STT, summarize, embed.
CallRank(c) ==
    CASE c.call = "transcribe" -> 1
      [] c.call = "update_record" /\ c.input = "stt" -> 2
      [] c.call = "summarize" -> 3
      [] c.call = "update_record" /\ c.input = "one_line" -> 4
      [] c.call = "update_record" /\ c.input = "summarize" -> 5
      [] c.call = "add_document" -> 6
      [] c.call = "update_record" /\ c.input = "embed" -> 7

\* The calls of the current request with a rank in `ranks`.
CallsRanked(ranks) ==
    { i \in 1..Len(run.calls) : CallRank(run.calls[i]) \in ranks }

\* A request that reached execute(): in it, or after it returned.
Executing ==
    \/ wf.pc \in InFlight \cup {"returned"}
    \/ wf.pc = "done" /\ wf.ret # "none"

\* The file's record when the request began, and whether it had one.
StartRecord == RecordOf(run.at_start.records, FileUuid)

HadRecord == HasId(run.at_start.records, FileUuid)

\* C22: within one execute() the calls are made in the order STT,
\* summarize, embed, each at most once; and a phase whose flag is false
\* makes no call, leaves its output file as it was, and leaves its History
\* flag and path as they were.
C22_PhasesInOrder ==
    Executing =>
      /\ \A i \in 1..(Len(run.calls) - 1) :
            CallRank(run.calls[i]) < CallRank(run.calls[i + 1])
      /\ ~wf.options.run_stt =>
            /\ CallsRanked({1, 2}) = {}
            /\ wfiles.transcript = run.at_start.wfiles.transcript
            /\ wfiles.transcript_by = run.at_start.wfiles.transcript_by
            /\ ~wf.tp
            /\ HadRecord =>
                 /\ TheRecord.stt_done = StartRecord.stt_done
                 /\ TheRecord.stt_path = StartRecord.stt_path
      /\ ~wf.options.run_summarize =>
            /\ CallsRanked({3, 4, 5}) = {}
            /\ wfiles.summary = run.at_start.wfiles.summary
            /\ wfiles.summary_by = run.at_start.wfiles.summary_by
            /\ ~wf.sp
            /\ HadRecord =>
                 /\ TheRecord.summarize_done = StartRecord.summarize_done
                 /\ TheRecord.summary_path = StartRecord.summary_path
      /\ ~wf.options.run_embed =>
            /\ CallsRanked({6, 7}) = {}
            /\ indexed = run.at_start.indexed
            /\ HadRecord => TheRecord.embed_done = StartRecord.embed_done

C22_Witness ==
    /\ wf.ret = "Ok"
    /\ wf.options = WorkflowOptions(TRUE, FALSE, TRUE)
    /\ run.calls = <<Call("transcribe", "audio"), Call("update_record", "stt"),
                     Call("add_document", "this_transcript"),
                     Call("update_record", "embed")>>
    /\ run.at_start.wfiles.summary = "text"
    /\ wfiles.summary_by = 0
    /\ HadRecord /\ TheRecord.stt_done /\ ~TheRecord.summarize_done
    /\ TheRecord.embed_done

\* The number of the current request's calls with a rank in `ranks` is 0.
NoCalls(ranks) == CallsRanked(ranks) = {}

C23_WitnessSaved ==
    /\ wf.ret = "Ok"
    /\ wf.options = WorkflowOptions(FALSE, TRUE, FALSE)
    /\ run.calls = <<Call("summarize", "saved_transcript"),
                     Call("update_record", "one_line"),
                     Call("update_record", "summarize")>>

\* C24: with run_embed set, every add_document call is given the first of:
\* the summary this invocation wrote, the transcript this invocation wrote,
\* the summary file saved before the request, the transcript file saved
\* before the request; and when there is none of them the phase makes no
\* call, leaves embed_done and the index as they were, and goes on to the
\* end of execute() with no error.
C24_EmbedInput ==
    [][ (Executing' /\ wf'.options.run_embed) =>
          /\ \A i \in CallsRanked({6})' :
               run'.calls[i].input =
                 IF ~NoCalls({5})' THEN "this_summary"
                 ELSE IF ~NoCalls({2})' THEN "this_transcript"
                 ELSE IF run'.at_start.wfiles.summary # "none"
                      THEN "saved_summary"
                 ELSE "saved_transcript"
          /\ \A i \in CallsRanked({6})' :
               /\ run'.calls[i].input = "this_summary" =>
                    wfiles'.summary = "text" /\ wfiles'.summary_by = run'.n
               /\ run'.calls[i].input = "this_transcript" =>
                    wfiles'.transcript = "text" /\ wfiles'.transcript_by = run'.n
               /\ run'.calls[i].input = "saved_summary" =>
                    /\ wfiles'.summary = "text"
                    /\ wfiles'.summary_by = run'.at_start.wfiles.summary_by
               /\ run'.calls[i].input = "saved_transcript" =>
                    /\ wfiles'.transcript = "text"
                    /\ wfiles'.transcript_by =
                         run'.at_start.wfiles.transcript_by
          /\ (wf.pc = "embed" /\ wf'.pc # "embed" /\ NoCalls({2, 5})
                /\ wfiles.summary = "none" /\ wfiles.transcript = "none") =>
               /\ wf'.pc = "finish"
               /\ progress_log' = Append(progress_log, 90)
               /\ task'.message = "Embedding skipped (no text)"
          /\ (\E k \in 1..Len(progress_log') : progress_log'[k] = 90) =>
               /\ NoCalls({6, 7})'
               /\ indexed' = run'.at_start.indexed
               /\ HadRecord' => TheRecord'.embed_done = StartRecord'.embed_done
               /\ wf'.pc \in {"returned", "done"} => wf'.ret = "Ok"
      ]_vars

C24_Witness ==
    /\ wf.ret = "Ok"
    /\ wf.options = WorkflowOptions(FALSE, FALSE, TRUE)
    /\ run.at_start.wfiles = OutputFiles("text", 0, "text", 0)
    /\ run.calls = <<Call("add_document", "saved_summary"),
                     Call("update_record", "embed")>>

\* An embed phase with no text at all.
C24_WitnessNone ==
    /\ wf.ret = "Ok"
    /\ wf.options = WorkflowOptions(FALSE, FALSE, TRUE)
    /\ run.at_start.wfiles = OutputFiles("none", 0, "none", 0)
    /\ progress_log = <<90, 100>>

\* The phase (1 STT, 2 summarize, 3 embed) execute() is in at `pc`.
PhaseOfPc(pc) ==
    CASE pc \in {"stt", "transcribing", "stt_history"} -> 1
      [] pc \in {"summarize", "summarizing", "summarize_history"} -> 2
      [] pc \in {"embed", "embedding", "embed_history"} -> 3

\* The ranks of the calls of the phases after phase `ph`.
LaterRanks(ph) ==
    CASE ph = 1 -> {3, 4, 5, 6, 7}
      [] ph = 2 -> {6, 7}
      [] ph = 3 -> {}

\* The record's flags, by phase.
Flags(r) == <<r.stt_done, r.summarize_done, r.embed_done>>

\* The step in which execute() returns an error.
Fails == wf.ret # "Err" /\ wf'.ret = "Err"

\* The failing step is the save of the phase's own update_record.
FailsInSave ==
    Fails /\ wf.pc \in {"stt_history", "summarize_history", "embed_history"}

\* After the failing step, the flags of the phases `from`..3 are those the
\* request found, the flags of the phases before the failing one are as
\* they were before the step, and no call of a later phase has been made.
FailureLeaves(from) ==
    /\ \A i \in 1..Len(run'.calls) :
          CallRank(run'.calls[i]) \notin LaterRanks(PhaseOfPc(wf.pc))
    /\ HadRecord' =>
         /\ \A q \in from..3 : Flags(TheRecord')[q] = Flags(StartRecord')[q]
         /\ \A q \in 1..(PhaseOfPc(wf.pc) - 1) :
              Flags(TheRecord')[q] = Flags(TheRecord)[q]
         /\ ~NoCalls({2})' => TheRecord'.stt_done
         /\ ~NoCalls({5})' => TheRecord'.summarize_done

\* Once execute() has returned an error it does nothing more: no call, no
\* progress, no change of the records, the files or the index.
NothingAfterError ==
    (wf.ret = "Err" /\ wf'.pc # "request") =>
       /\ wf'.ret = "Err"
       /\ run' = run
       /\ progress_log' = progress_log
       /\ records' = records /\ history_file' = history_file
       /\ wfiles' = wfiles
       /\ indexed' = indexed

\* C25 as stated: when a phase of execute() fails, execute() returns the
\* error at once, no later phase runs, the History flags of the failing
\* phase and of the later phases are as the request found them, and the
\* flags set by earlier phases stay set.
C25_FailureSetsNoFlag ==
    [][ /\ Fails => FailureLeaves(PhaseOfPc(wf.pc))
        /\ NothingAfterError ]_vars

\* C25, amended: the same, except that when the failure is the save of the
\* failing phase's own update_record, that phase's flag is already set in
\* the in-memory record; the flags of the later phases are still as the
\* request found them.
C25_FailureSetsNoLaterFlag ==
    [][ /\ Fails =>
             FailureLeaves(IF FailsInSave THEN PhaseOfPc(wf.pc) + 1
                           ELSE PhaseOfPc(wf.pc))
        /\ FailsInSave =>
             (HadRecord' => Flags(TheRecord')[PhaseOfPc(wf.pc)])
        /\ NothingAfterError ]_vars

\* The summarizer failed after a successful STT phase: stt_done stays set,
\* summarize_done and embed_done are not set, add_document was not called.
C25_Witness ==
    /\ wf.pc = "done"
    /\ wf.ret = "Err"
    /\ wf.err = "LLM error"
    /\ wf.options = WorkflowOptions(TRUE, TRUE, TRUE)
    /\ run.calls = <<Call("transcribe", "audio"), Call("update_record", "stt"),
                     Call("summarize", "this_transcript")>>
    /\ HadRecord
    /\ Flags(StartRecord) = <<FALSE, FALSE, FALSE>>
    /\ Flags(TheRecord) = <<TRUE, FALSE, FALSE>>
    /\ ~indexed

\* The step in which execute() calls update_record with the closure of
\* `phase` and the file has a record.
SetsFlag(phase) ==
    /\ run'.calls = Append(run.calls, Call("update_record", phase))
    /\ HasId(records, FileUuid)

\* C27: in the step in which execute() sets stt_done, summarize_done or
\* embed_done, the artifact is there and this invocation produced it: the
\* transcript file written after its transcribe call, the summary file
\* written after its summarize call, the index entry added by its
\* add_document call.
C27_ArtifactBeforeFlag ==
    [][ /\ SetsFlag("stt") =>
             /\ TheRecord'.stt_done
             /\ wfiles.transcript # "none" /\ wfiles'.transcript # "none"
             /\ wfiles.transcript_by = run.n
             /\ ~NoCalls({1})
        /\ SetsFlag("summarize") =>
             /\ TheRecord'.summarize_done
             /\ wfiles.summary # "none" /\ wfiles'.summary # "none"
             /\ wfiles.summary_by = run.n
             /\ ~NoCalls({3})
        /\ SetsFlag("embed") =>
             /\ TheRecord'.embed_done
             /\ indexed /\ indexed'
             /\ ~NoCalls({6})
        /\ \A q \in 1..3 :
             (HasId(records, FileUuid) /\ ~Flags(TheRecord)[q]
                /\ Flags(TheRecord')[q]) =>
               SetsFlag(<<"stt", "summarize", "embed">>[q])
      ]_vars

C27_Witness ==
    /\ wf.pc = "finish"
    /\ run.n = 1
    /\ HadRecord
    /\ Flags(StartRecord) = <<FALSE, FALSE, FALSE>>
    /\ Flags(TheRecord) = <<TRUE, TRUE, TRUE>>
    /\ run.at_start.wfiles = OutputFiles("none", 0, "none", 0)
    /\ wfiles = OutputFiles("text", 1, "text", 1)
    /\ indexed

-----------------------------------------------------------------------------
(* Properties of consecutive requests for one upload                        *)

SttOnly == WorkflowOptions(TRUE, FALSE, FALSE)

SummarizeOnly == WorkflowOptions(FALSE, TRUE, FALSE)

EmbedOnly == WorkflowOptions(FALSE, FALSE, TRUE)

\* The current request is the k-th and the requests before it were these,
\* each returning Ok.
After(reqs) ==
    /\ run.n = Len(reqs) + 1
    /\ run.past = [k \in 1..Len(reqs) |-> Outcome(reqs[k], "Ok")]
    /\ Executing

\* The first request, STT only, returned Ok: stt_done is set and
\* summarize_done is not.
SttOnlyRun ==
    (After(<<>>) /\ wf.options = SttOnly /\ wf.ret = "Ok") =>
       /\ TheRecord.stt_done
       /\ ~TheRecord.summarize_done

\* The second request, summarize only: no transcription, no failure other
\* than the summarizer's or an I/O error, and when it returns Ok and
\* `nonempty` holds it has summarized the saved transcript and set
\* summarize_done.
SummarizeOnlyRun(nonempty) ==
    (After(<<SttOnly>>) /\ wf.options = SummarizeOnly) =>
       /\ NoCalls({1, 2})
       /\ run.at_start.wfiles.transcript # "none"
       /\ wf.ret = "Err" => wf.err \in {"LLM error", "IO error"}
       /\ (wf.ret = "Ok" /\ nonempty) =>
            /\ TheRecord.summarize_done
            /\ run.calls[1] = Call("summarize", "saved_transcript")
            /\ wfiles.summary_by = run.n

\* The third request, embed only: when it returns Ok and `nonempty` holds
\* it has given add_document the saved summary and set embed_done.
EmbedOnlyRun(nonempty) ==
    (After(<<SttOnly, SummarizeOnly>>) /\ wf.options = EmbedOnly) =>
       /\ NoCalls({1, 2, 3, 4, 5})
       /\ wf.ret = "Err" => wf.err \in {"Vector search error", "IO error"}
       /\ (wf.ret = "Ok" /\ nonempty) =>
            /\ TheRecord.embed_done
            /\ indexed
            /\ run.calls[1] =
                 Call("add_document",
                      IF run.at_start.wfiles.summary # "none"
                      THEN "saved_summary" ELSE "saved_transcript")

\* C26 as stated: from a fresh record, an STT-only request that succeeds
\* sets stt_done and not summarize_done; a summarize-only request after it
\* needs no transcription and, succeeding, sets summarize_done from the
\* saved transcript; an embed-only request after that, succeeding, sets
\* embed_done from the saved summary if present, else the transcript.
C26_PhaseByPhase ==
    /\ SttOnlyRun
    /\ SummarizeOnlyRun(TRUE)
    /\ EmbedOnlyRun(TRUE)

\* C26, amended: the same when the saved transcript is not empty (for the
\* summarize-only request) and the saved text to embed is not empty (for
\* the embed-only request).
C26_PhaseByPhaseWithText ==
    /\ SttOnlyRun
    /\ SummarizeOnlyRun(run.at_start.wfiles.transcript = "text")
    /\ EmbedOnlyRun(IF run.at_start.wfiles.summary # "none"
                    THEN run.at_start.wfiles.summary = "text"
                    ELSE run.at_start.wfiles.transcript = "text")

C26_Witness ==
    /\ After(<<SttOnly, SummarizeOnly>>)
    /\ wf.options = EmbedOnly
    /\ wf.ret = "Ok"
    /\ Flags(TheRecord) = <<TRUE, TRUE, TRUE>>
    /\ wfiles = OutputFiles("text", 1, "text", 2)
    /\ run.calls = <<Call("add_document", "saved_summary"),
                     Call("update_record", "embed")>>

\* A summarize-only request that returned Ok over an empty transcript.
C26_WitnessEmpty ==
    /\ After(<<SttOnly>>)
    /\ wf.options = SummarizeOnly
    /\ wf.ret = "Ok"
    /\ wfiles.transcript = "empty"
    /\ ~TheRecord.summarize_done
    /\ run.calls = <<>>

\* The STT phase of the current request has set stt_done, and an earlier
\* request's STT phase had done so too.
SttRanTwice ==
    /\ Executing
    /\ \E k \in 1..Len(progress_log) : progress_log[k] = 50
    /\ \E k \in 1..Len(run.past) :
         run.past[k].options.run_stt /\ run.past[k].ret = "Ok"

\* C28: no request changes the number of History records or their order,
\* and there is one record of the file; when the STT phase has run in two
\* requests, that record has stt_done set and the stt_path the first run
\* gave it, and the transcript file at that path is the one the latest run
\* wrote.
C28_SttTwiceOneRecord ==
    /\ Len(records) = Len(run.at_start.records) \/ run.n = 0
    /\ run.n > 0 =>
         \A i \in 1..Len(records) : records[i].id = run.at_start.records[i].id
    /\ Cardinality({ i \in 1..Len(records) : records[i].id = FileUuid }) = 1
    /\ SttRanTwice =>
         /\ TheRecord.stt_done
         /\ StartRecord.stt_done
         /\ TheRecord.stt_path = Some(TranscriptPath(FileUuid))
         /\ TheRecord.stt_path = StartRecord.stt_path
         /\ wfiles.transcript # "none"
         /\ wfiles.transcript_by = run.n

C28_Witness ==
    /\ After(<<SttOnly>>)
    /\ wf.options = SttOnly
    /\ wf.ret = "Ok"
    /\ run.at_start.wfiles.transcript = "empty"
    /\ wfiles = OutputFiles("text", 2, "none", 0)
    /\ Len(records) = 2
    /\ TheRecord.stt_path = StartRecord.stt_path
    /\ TheRecord.stt_done

-----------------------------------------------------------------------------
(* Properties of OllamaClient::generate and OllamaClient::embed             *)

\* The call has returned.
ClientReturned == ollama.pc = "returned"

\* C29: a generate or embed call makes at most 3 attempts; an attempt is
\* made only after failed ones, so a success is the last attempt and its
\* response is what the call returns; after failed attempt k it has slept
\* 2^(k-1) seconds exactly when another attempt follows (1 s after the
\* first, 2 s after the second, nothing after the third); and it returns an
\* error exactly when 3 attempts failed, the error of the third.
C29_BoundedRetry ==
    LET n == Len(ollama.tries)
        failed == \A k \in 1..n : ~ollama.tries[k].ok
    IN  /\ n <= 3
        /\ \A k \in 1..n : ollama.tries[k].attempt = k
        /\ \A k \in 1..(n - 1) : ~ollama.tries[k].ok
        /\ \A k \in 1..Len(ollama.sleeps) :
             /\ ollama.sleeps[k] = 2 ^ (k - 1)
             /\ k < 3
             /\ k <= n /\ ~ollama.tries[k].ok
        /\ \A k \in 1..(n - 1) : k <= Len(ollama.sleeps)
        /\ ClientReturned =>
             /\ n >= 1
             /\ Len(ollama.sleeps) = n - 1
             /\ ollama.ret.ok <=> ollama.tries[n].ok
             /\ ollama.ret.ok => ollama.ret.attempt = n
             /\ ~ollama.ret.ok <=> (n = 3 /\ failed)
             /\ ~ollama.ret.ok => ollama.ret.error = ollama.tries[3].error
        /\ (n = 3 /\ failed /\ ollama.pc = "loop") => Len(ollama.sleeps) = 2

C29_Witness ==
    /\ ClientReturned
    /\ ollama.op = "embed"
    /\ ~ollama.ret.ok
    /\ ollama.sleeps = <<1, 2>>
    /\ ollama.tries[1].error = "Failed to send embedding request"
    /\ ollama.tries[3].error = "Empty embedding from Ollama"
    /\ ollama.ret.error = "Empty embedding from Ollama"

\* A call that succeeded at its second attempt.
C29_WitnessSecond ==
    /\ ClientReturned
    /\ ollama.op = "generate"
    /\ ollama.ret.ok /\ ollama.ret.attempt = 2
    /\ ollama.sleeps = <<1>>
    /\ Len(ollama.tries) = 2

-----------------------------------------------------------------------------
(* Properties of the choice of path in summarize                            *)

\* C30: for a text shorter than 8000 bytes summarize makes at most two
\* generation calls and, returning a Summary, exactly two: the structured
\* summary of the whole text capped at 1000 tokens, then the one-line
\* summary of that summary capped at 100 tokens; chunk_text is not called
\* and no chunk or reduce call is made.  For a text of 8000 bytes or more
\* chunk_text is called and the first generation call is the summary of
\* the first chunk, capped at 500 tokens, followed by a reduce call.
C30_DirectBelowLimit ==
    /\ s_text_len < 8000 =>
         /\ spc \in {"call", "direct", "one_line", "done"}
         /\ s_nchunks = 0
         /\ chunk_summaries = <<>> /\ batch_summaries = <<>>
         /\ Len(calls) <= 2
         /\ \A k \in 1..Len(calls) : ~IsReduce(calls[k])
         /\ Len(calls) >= 1 =>
              /\ calls[1].prompt = "chunk_prompt"
              /\ calls[1].parts = <<InputText>>
              /\ calls[1].num_predict = 1000
         /\ Len(calls) = 2 =>
              /\ calls[2].prompt = "one_line_prompt"
              /\ calls[2].parts = <<calls[1].out>>
              /\ calls[2].num_predict = 100
         /\ ReturnedOk =>
              /\ Len(calls) = 2
              /\ sresult.text = calls[1].out
              /\ sresult.one_line = calls[2].out
    /\ (s_text_len >= 8000 /\ spc # "call") =>
         /\ spc # "direct"
         /\ s_nchunks >= 1
         /\ Len(calls) >= 1 =>
              /\ calls[1].parts = <<ChunkTextOf(1)>>
              /\ calls[1].num_predict = 500
         /\ ReturnedOk =>
              /\ Len(calls) >= s_nchunks + 2
              /\ IsReduce(calls[s_nchunks + 1])

C30_Witness ==
    /\ ReturnedOk
    /\ s_text_len = 7999
    /\ Len(calls) = 2

\* A text of exactly 8000 bytes on the map-reduce path.
C30_WitnessAtLimit ==
    /\ ReturnedOk
    /\ s_text_len = 8000
    /\ s_nchunks = 1
    /\ Len(calls) = 3

-----------------------------------------------------------------------------
(* job_manager.rs: the registry under calls that name any task_id          *)

\* The progress values and messages a caller passes.
JobProgress == {10, 50}
JobMessages == {"Starting transcription...", "Generating summary..."}
JobErrors == {"STT error: model not loaded"}

\* The JobManager calls that take a task_id.
ByIdOps == {"update_progress", "complete_task", "fail_task", "cancel_task"}

\* What cancel_task returns: true from the Some arm, false from the else.
CancelReturn(t) == IF t.exists THEN "true" ELSE "false"

\* JobManager::create_task: a fresh Uuid, Running, progress 0.
JobCreate ==
    /\ \E id \in TaskIds :
         /\ ~tasks[id].exists
         /\ tasks' = [tasks EXCEPT ![id] = TaskInfo("Running", 0, "Starting...")]
         /\ jret' = JobReturn("create_task", id, id)
    /\ UNCHANGED jobOther

JobUpdateProgress ==
    /\ \E id \in TaskIds, progress \in JobProgress, message \in JobMessages :
         /\ tasks' = [tasks EXCEPT
                        ![id] = update_progress(tasks[id], progress, message)]
         /\ jret' = JobReturn("update_progress", id, "()")
    /\ UNCHANGED jobOther

JobComplete ==
    /\ \E id \in TaskIds :
         /\ tasks' = [tasks EXCEPT ![id] = complete_task(tasks[id])]
         /\ jret' = JobReturn("complete_task", id, "()")
    /\ UNCHANGED jobOther

JobFail ==
    /\ \E id \in TaskIds, error \in JobErrors :
         /\ tasks' = [tasks EXCEPT ![id] = fail_task(tasks[id], error)]
         /\ jret' = JobReturn("fail_task", id, "()")
    /\ UNCHANGED jobOther

JobCancel ==
    /\ \E id \in TaskIds :
         /\ tasks' = [tasks EXCEPT ![id] = cancel_task(tasks[id])]
         /\ jret' = JobReturn("cancel_task", id, CancelReturn(tasks[id]))
    /\ UNCHANGED jobOther

InitJobs ==
    /\ IdleChunk
    /\ IdleSumm
    /\ IdleVec
    /\ IdleServer

NextJobs ==
    \/ JobCreate
    \/ JobUpdateProgress
    \/ JobComplete
    \/ JobFail
    \/ JobCancel

SpecJobs == InitJobs /\ [][NextJobs]_vars

\* C31: update_progress, complete_task, fail_task and cancel_task with a
\* task_id that is not in the registry leave the registry as it was and
\* return normally; cancel_task returns false then, and returns true exactly
\* when the task exists.
C31_UnknownIdIsNoOp ==
    [][/\ (jret'.op \in ByIdOps /\ ~tasks[jret'.id].exists) =>
             /\ tasks' = tasks
             /\ jret'.value = IF jret'.op = "cancel_task" THEN "false" ELSE "()"
       /\ jret'.op = "cancel_task" =>
             (jret'.value = "true" <=> tasks[jret'.id].exists)
       /\ jret'.op = "cancel_task" => jret'.value \in {"true", "false"}]_vars

\* Both arms of cancel_task have run: one id cancelled, the other still absent
\* after a cancel that named it.
C31_Witness ==
    /\ tasks["t1"].exists
    /\ tasks["t1"].status = "Cancelled"
    /\ ~tasks["t2"].exists
    /\ jret = JobReturn("cancel_task", "t2", "false")

-----------------------------------------------------------------------------
(* engine.rs: search over embedding files that cannot be used              *)

\* The last call was a search whose query embedding was obtained.
Searched ==
    /\ vret.op \in {"search", "search_with_filters"}
    /\ vret.embedded = "ok"

\* The entries the scan of the last search loads: active and passing its
\* date filter.
Scanned ==
    { e \in active_entries(entries) :
        PassesDateFilter(e.metadata.timestamp, vret.start_date, vret.end_date) }

\* The embedding file of entry `e` is missing or is not a JSON vector.
Unusable(e) ==
    \/ e.embedding_path \notin DOMAIN embedding_files
    \/ ~embedding_files[e.embedding_path].ok

\* The entries of the index, soft-deleted ones included.
AllEntries == { entries[d] : d \in DOMAIN entries }

\* C32: a search fails, with no results, when an active entry that passes
\* the date filter has an embedding file that is missing or cannot be
\* parsed; the files of soft-deleted entries and of entries the date filter
\* excludes are not read, so with every scanned file usable the search
\* succeeds whatever the other files hold.
C32_UnusableEmbeddingFails ==
    Searched =>
        /\ (\E e \in Scanned : Unusable(e)) =>
              /\ vret.tag = "Err"
              /\ vret.err \in {"io", "json"}
              /\ vret.results = <<>>
        /\ (\A e \in Scanned : ~Unusable(e)) =>
              /\ vret.tag = "Ok"
              /\ \A i \in 1..Len(vret.results) :
                    \E e \in Scanned : e.doc_id = vret.results[i].doc_id

\* A search that failed on the torn file of an active entry.
C32_Witness ==
    /\ Searched
    /\ \E e \in Scanned : Unusable(e)
    /\ vret.tag = "Err"

\* A search that succeeded although a soft-deleted entry's file is torn.
C32_WitnessDeleted ==
    /\ Searched
    /\ vret.tag = "Ok"
    /\ \E e \in AllEntries : e.deleted /\ Unusable(e)

\* A search that succeeded although the file of an active entry outside the
\* date range is torn.
C32_WitnessFiltered ==
    /\ Searched
    /\ vret.tag = "Ok"
    /\ \E e \in active_entries(entries) : e \notin Scanned /\ Unusable(e)

-----------------------------------------------------------------------------
(* types.rs, engine.rs: one entry per doc_id                               *)

\* The step is an add_document that got as far as add_entry: it returned Ok,
\* or it changed the index in memory before its save failed.
AddedEntry ==
    /\ vret'.op = "add_document"
    /\ (vret'.tag = "Ok" \/ entries' # entries)

\* C38: the index holds one entry per doc_id, stored under that id;
\* add_document for an id already present replaces its entry and leaves the
\* others as they were; the new entry is active whatever the old one was, so
\* stats() counts it and a search that scans it and has room returns it.
C38_OneEntryPerDocId ==
    [][/\ \A d \in DOMAIN entries' : entries'[d].doc_id = d
       /\ AddedEntry =>
             /\ DOMAIN entries' = DOMAIN entries \cup {vret'.doc_id}
             /\ ~entries'[vret'.doc_id].deleted
             /\ \A d \in DOMAIN entries \ {vret'.doc_id} :
                   entries'[d] = entries[d]
             /\ count(entries') =
                   Cardinality(ActiveIds(entries) \cup {vret'.doc_id})
       /\ vret'.op = "stats" =>
             vret'.count = Cardinality(ActiveIds(entries'))
       /\ (/\ vret'.op \in {"search", "search_with_filters"}
           /\ vret'.tag = "Ok"
           /\ vret'.top_k >= Cardinality(ActiveIds(entries'))) =>
             \A d \in ActiveIds(entries') :
                PassesDateFilter(entries'[d].metadata.timestamp,
                                 vret'.start_date, vret'.end_date) =>
                   \E i \in 1..Len(vret'.results) : vret'.results[i].doc_id = d
      ]_vars

\* add_document has replaced a soft-deleted entry: the index file still holds
\* the entry as delete_document saved it, the index in memory holds the new,
\* active one.
C38_Witness ==
    /\ vret.op = "add_document"
    /\ vret.doc_id = "d1"
    /\ index_file.state = "ok"
    /\ "d1" \in DOMAIN index_file.entries
    /\ index_file.entries["d1"].deleted
    /\ "d1" \in ActiveIds(entries)

\* stats() after an add_document that returned Ok for an id already there.
C38_WitnessStats ==
    /\ vret.op = "stats"
    /\ vret.count = 1
    /\ ncalls = 3
    /\ DOMAIN entries = {"d1"}
    /\ index_file = IndexFileOf(entries)

-----------------------------------------------------------------------------
(* history.rs: a failed save, and updates of soft-deleted records          *)

\* The operations of the History Store that change the record list.
Mutating == {"add_record", "update_record", "delete_records"}

\* C36: when the write of the history file fails during add_record,
\* update_record or delete_records, the call returns an error and the record
\* list in memory is the one from before the call.
C36_FailedSaveRestoresMemory ==
    [][(hret'.op \in Mutating /\ hret'.tag = "Err") => records' = records]_vars

\* C37: update_record with the id of a soft-deleted record, which get_by_id
\* does not find, runs no mutator and leaves the record list as it was.
C37_DeletedRecordNotUpdated ==
    [][(/\ hret'.op = "update_record"
        /\ \E id \in hret'.ids : get_by_id(records, id) = <<>>) =>
           /\ ~hret'.invoked
           /\ records' = records]_vars

-----------------------------------------------------------------------------
(* chunking.rs: where a non-final chunk ends                               *)

\* The delimiters lying inside text[from..to): <<p, n>> for a sentence
\* ending of n bytes that begins at byte p.
DelimitersIn(t, from, to) ==
    { <<p, Len(sentence_endings[k])>> :
        p \in from..(to - 1), k \in 1..Len(sentence_endings) } \cap
    { d \in (0..Len(t)) \X (1..3) :
        /\ d[1] + d[2] <= to
        /\ \E k \in 1..Len(sentence_endings) :
              SubSeq(t, d[1] + 1, d[1] + d[2]) = sentence_endings[k] }

\* The end of the window that starts at s, and the start of its last 20%.
WindowEnd(s) == Min(s + max_chars, text_len)
RegionStart(s) == s + (((WindowEnd(s) - s) * 80) \div 100)

\* C39: a chunk whose window ends before the end of the text ends right
\* after the rightmost sentence ending that lies in the last 20% of the
\* window, wherever in that region the ending begins, its first position
\* included; with no sentence ending there it ends at the window's end.
C39_BreaksAfterRightmostDelimiter ==
    \A i \in 1..Len(chunks) :
        LET s == chunks[i].start
            found == DelimitersIn(text, RegionStart(s), WindowEnd(s))
        IN  WindowEnd(s) < text_len =>
              IF found = {}
              THEN chunks[i].end = WindowEnd(s)
              ELSE \E d \in found :
                     /\ \A o \in found : o[1] <= d[1]
                     /\ chunks[i].end = d[1] + d[2]

-----------------------------------------------------------------------------
(* postprocess.rs: remove_word_repetitions                                 *)

MaxWords == 8      \* a text has at most MaxWords words

\* The words of the input texts: one of at most two bytes, one longer.
WordSet == {"b", "aaa"}

\* str::len of a word, in bytes.
WordLen(w) == IF w = "b" THEN 1 ELSE 3

WordTexts == UNION { [1..n -> WordSet] : n \in 0..MaxWords }

\* "First pass: remove consecutive duplicates", from the i-th word on:
\* prev_word (<<>> for None), consecutive_count and cleaned_words so far.
RECURSIVE FirstPass(_, _, _, _, _)
FirstPass(words, i, prev_word, consecutive_count, cleaned) ==
    IF i > Len(words) THEN cleaned
    ELSE LET word == words[i]
             same == prev_word = <<word>>
             n == IF same THEN consecutive_count + 1 ELSE 1
         IN  IF same /\ n >= 3
             THEN FirstPass(words, i + 1, prev_word, n, cleaned)
             ELSE FirstPass(words, i + 1, <<word>>, n, Append(cleaned, word))

\* "Second pass: limit total word frequency": the word is skipped when it
\* was kept `seen` times before.
SkipsWord(word, seen) ==
    \/ seen >= 5
    \/ WordLen(word) <= 2 /\ seen >= 3

\* The loop of the second pass from the i-th cleaned word on: `positions`
\* is word_positions as the number of positions stored for each word.
RECURSIVE SecondPass(_, _, _, _)
SecondPass(cleaned, i, positions, final_words) ==
    IF i > Len(cleaned) THEN final_words
    ELSE LET word == cleaned[i]
         IN  IF SkipsWord(word, positions[word])
             THEN SecondPass(cleaned, i + 1, positions, final_words)
             ELSE SecondPass(cleaned, i + 1,
                             [positions EXCEPT ![word] = @ + 1],
                             Append(final_words, word))

\* remove_word_repetitions up to the end of the first pass; a text of at
\* most one word is returned as it is.
RemoveFirstPass ==
    /\ pp.pc = "call"
    /\ pp' = IF Len(pp.words) <= 1
             THEN WordsCall("done", pp.words, <<>>, pp.words)
             ELSE WordsCall("second", pp.words,
                            FirstPass(pp.words, 1, <<>>, 0, <<>>), <<>>)
    /\ UNCHANGED ppOther

\* The second pass and the join; one cleaned word is joined as it is.
RemoveSecondPass ==
    /\ pp.pc = "second"
    /\ pp' = [pp EXCEPT
                !.pc = "done",
                !.out = IF Len(pp.cleaned_words) > 1
                        THEN SecondPass(pp.cleaned_words, 1,
                                        [w \in WordSet |-> 0], <<>>)
                        ELSE pp.cleaned_words]
    /\ UNCHANGED ppOther

InitWords ==
    /\ IdleChunk
    /\ IdleSumm
    /\ IdleVec
    /\ IdleOpen
    /\ IdleHist
    /\ IdleConc
    /\ IdleWf
    /\ IdleRetry
    /\ IdleJobs
    /\ IdleRst
    /\ IdleCadd
    /\ \E words \in WordTexts : pp = WordsCall("call", words, <<>>, <<>>)

NextWords ==
    \/ RemoveFirstPass
    \/ RemoveSecondPass

SpecWords == InitWords /\ [][NextWords]_vars

\* `seq` holds the same word at three positions in a row.
HasTriple(seq) ==
    \E i \in 1..(Len(seq) - 2) : seq[i] = seq[i + 1] /\ seq[i + 1] = seq[i + 2]

\* C40: the words remove_word_repetitions returns never hold the same word
\* three or more times in a row, the second pass included.
C40_NoTripleInOutput == pp.pc = "done" => ~HasTriple(pp.out)

\* The first pass alone does leave no triple.
FirstPassNoTriple == pp.pc \in {"second", "done"} => ~HasTriple(pp.cleaned_words)

-----------------------------------------------------------------------------
(* workflow.rs 180-194 and routes/record.rs reset_record on one file id     *)

\* The mutator of reset_record (record.rs 132-139); one_line_summary is a
\* field outside the record of this model.
ResetAll(r) ==
    [r EXCEPT !.stt_done = FALSE, !.summarize_done = FALSE,
              !.embed_done = FALSE, !.stt_path = None, !.summary_path = None]

\* A workflow with run_embed reaches run_embed_workflow with a text.
EmbedStart(w) ==
    /\ rst.wpc[w] \in {"idle", "done", "err"}
    /\ rst' = [rst EXCEPT !.wpc[w] = "add_document"]
    /\ UNCHANGED rstOther

\* vector_search.add_document(file_uuid, ..).await?: the embedding or the
\* file write may fail before the index is touched; add_entry and save_index
\* run under the index's write lock, and a failed save leaves the entry in.
EmbedAddDocument(w) ==
    /\ rst.wpc[w] = "add_document"
    /\ \E reached \in BOOLEAN, saved \in BOOLEAN :
         /\ ~reached => saved
         /\ rst' = [rst EXCEPT
                      !.index = IF reached
                                THEN add_entry(@, VectorEntry(FileUuid,
                                                    VectorMetadata(1)))
                                ELSE @,
                      !.wpc[w] = IF reached /\ saved THEN "update_record"
                                 ELSE "err"]
    /\ UNCHANGED rstOther

\* self.history.write().await.update_record(file_uuid, embed_done = true)?:
\* the guard lives for the statement.
EmbedUpdateRecord(w) ==
    /\ rst.wpc[w] = "update_record"
    /\ CanAcquireWrite(rst.lock)
    /\ \E saved \in BOOLEAN :
         rst' = [rst EXCEPT !.record = EmbedDone(@),
                            !.wpc[w] = IF saved THEN "done" ELSE "err"]
    /\ UNCHANGED rstOther

\* reset_record: state.history.write().await and update_record; the guard
\* is held to the end of the handler, a failed save returns 500 at once.
ResetUpdateRecord(q) ==
    /\ rst.rpc[q] \in {"idle", "done", "err"}
    /\ CanAcquireWrite(rst.lock)
    /\ \E saved \in BOOLEAN :
         rst' = [rst EXCEPT !.record = ResetAll(@),
                            !.lock = IF saved THEN q ELSE "free",
                            !.rpc[q] = IF saved THEN "remove_dir" ELSE "err"]
    /\ UNCHANGED rstOther

\* "Delete output directory": db_base_path/<record_id>, a failure is logged.
ResetRemoveDir(q) ==
    /\ rst.rpc[q] = "remove_dir"
    /\ rst' = [rst EXCEPT !.rpc[q] = "delete_document"]
    /\ UNCHANGED rstOther

\* vector_search.delete_document(record_id): delete_entry under the index's
\* write lock, a failed save is logged; then the handler returns and the
\* history guard is dropped.
ResetDeleteDocument(q) ==
    /\ rst.rpc[q] = "delete_document"
    /\ rst' = [rst EXCEPT !.index = delete_entry(@, FileUuid),
                          !.lock = "free",
                          !.rpc[q] = "done"]
    /\ UNCHANGED rstOther

InitReset ==
    /\ IdleChunk
    /\ IdleSumm
    /\ IdleVec
    /\ IdleOpen
    /\ IdleHist
    /\ IdleConc
    /\ IdleWf
    /\ IdleRetry
    /\ IdleJobs
    /\ IdlePp
    /\ IdleCadd
    /\ rst = ResetState(SttDone(HistoryRecordNew(FileUuid)), <<>>, "free",
                        [w \in EmbedWorkflows |-> "idle"],
                        [q \in ResetRequests |-> "idle"])

NextReset ==
    \/ \E w \in EmbedWorkflows : EmbedStart(w)
    \/ \E w \in EmbedWorkflows : EmbedAddDocument(w)
    \/ \E w \in EmbedWorkflows : EmbedUpdateRecord(w)
    \/ \E q \in ResetRequests : ResetUpdateRecord(q)
    \/ \E q \in ResetRequests : ResetRemoveDir(q)
    \/ \E q \in ResetRequests : ResetDeleteDocument(q)

SpecReset == InitReset /\ [][NextReset]_vars

\* C34: with workflows and reset requests running on the same file id, a
\* History record with embed_done = true has an active entry in the vector
\* index, in every reachable state.
C34_EmbedDoneHasActiveEntry ==
    rst.record # <<>> /\ rst.record.embed_done =>
        \E e \in active_entries(rst.index) : e.doc_id = FileUuid

\* One workflow alone, and a reset that starts after it has ended, keep the
\* flag and the entry together.
EmbedDoneAloneHasEntry ==
    (\A w \in EmbedWorkflows \ {"w1"} : rst.wpc[w] = "idle") /\
    (\A q \in ResetRequests : rst.rpc[q] = "idle") =>
        C34_EmbedDoneHasActiveEntry

-----------------------------------------------------------------------------
(* engine.rs 58-78: two add_document calls for one doc_id                   *)

\* The doc_id both calls name, the embedding `embed` returns for the text of
\* each call, and the metadata each call passes.
SharedDoc == "d1"
VectorOf(c) == IF c = "a1" THEN <<1, 0>> ELSE <<1, 1>>
MetadataOf(c) == VectorMetadata(IF c = "a1" THEN 1 ELSE 2)

\* What the engine holds for the doc_id before the two calls: nothing, the
\* file and entry of an earlier add_document, or those after a
\* delete_document.
EarlierAdds ==
    LET earlier == add_entry(<<>>, VectorEntry(SharedDoc, VectorMetadata(NoDate)))
    IN  { [file |-> NoFile, index |-> <<>>],
          [file |-> FileOf(<<0, 1>>), index |-> earlier],
          [file |-> FileOf(<<0, 1>>), index |-> delete_entry(earlier, SharedDoc)] }

\* add_document(doc_id, text, metadata) is called.
AddCall(c) ==
    /\ cadd.pc[c] = "idle"
    /\ cadd' = [cadd EXCEPT !.pc[c] = "embed"]
    /\ UNCHANGED caddOther

\* `self.llm_client.embed(..).await?`
AddEmbed(c) ==
    /\ cadd.pc[c] = "embed"
    /\ \E ok \in BOOLEAN :
         cadd' = [cadd EXCEPT !.pc[c] = IF ok THEN "write" ELSE "err"]
    /\ UNCHANGED caddOther

\* create_dir_all and `tokio::fs::write(&embedding_file, embedding_json)`,
\* outside any lock.
AddWriteFile(c) ==
    /\ cadd.pc[c] = "write"
    /\ \E w \in WriteOutcomes(cadd.file, FileOf(VectorOf(c)), TornFile) :
         cadd' = [cadd EXCEPT !.file = w.file,
                              !.pc[c] = IF w.ok THEN "add_entry" ELSE "err"]
    /\ UNCHANGED caddOther

\* `self.index.write().await`, add_entry and save_index: one call at a time.
AddEntry(c) ==
    /\ cadd.pc[c] = "add_entry"
    /\ LET es == add_entry(cadd.index, VectorEntry(SharedDoc, MetadataOf(c)))
       IN  \E w \in WriteOutcomes(cadd.saved, IndexFileOf(es), TornIndexFile) :
             cadd' = [cadd EXCEPT !.index = es,
                                  !.saved = w.file,
                                  !.pc[c] = IF w.ok THEN "done" ELSE "err"]
    /\ UNCHANGED caddOther

InitAdds ==
    /\ IdleChunk
    /\ IdleSumm
    /\ IdleVec
    /\ IdleOpen
    /\ IdleHist
    /\ IdleConc
    /\ IdleWf
    /\ IdleRetry
    /\ IdleJobs
    /\ IdlePp
    /\ IdleRst
    /\ cadd \in { AddState(s.file, s.index, IndexFileOf(s.index),
                           [c \in AddCalls |-> "idle"]) : s \in EarlierAdds }

NextAdds ==
    \/ \E c \in AddCalls : AddCall(c)
    \/ \E c \in AddCalls : AddEmbed(c)
    \/ \E c \in AddCalls : AddWriteFile(c)
    \/ \E c \in AddCalls : AddEntry(c)

SpecAdds == InitAdds /\ [][NextAdds]_vars

\* The file and the index entry of the doc_id are those of call `c`.
StateOf(c) ==
    /\ cadd.file = FileOf(VectorOf(c))
    /\ SharedDoc \in DOMAIN cadd.index
    /\ cadd.index[SharedDoc] = VectorEntry(SharedDoc, MetadataOf(c))

\* C33: when two add_document calls for the same doc_id have both returned
\* Ok, the embedding file and the index entry are those of one of the two
\* calls, whatever the interleaving.
C33_FinalStateOfOneCall ==
    (\A c \in AddCalls : cadd.pc[c] = "done") => \E c \in AddCalls : StateOf(c)

\* A call that runs from its file write to its return with no step of the
\* other call in between leaves its own file and entry.
AddAloneIsWhole ==
    [][\A c \in AddCalls :
         (cadd.pc[c] = "add_entry" /\ cadd'.pc[c] = "done" /\
          cadd.file = FileOf(VectorOf(c))) => StateOf(c)']_vars

-----------------------------------------------------------------------------
(* process.rs, workflow.rs, summarize.rs, chunking.rs: a /process request   *)
(* from create_task to the end of its spawned task, with chunk_text run on  *)
(* the transcript when it is 8000 bytes or longer.                          *)

\* Transcripts that take the map-reduce path: 8000 and 8001 ASCII bytes,
\* and one whose 8000th byte lies inside a three-byte character.
Ascii(n) == [i \in 1..n |-> "a"]
LongTranscripts ==
    { Ascii(DirectLimit),
      Ascii(DirectLimit + 1),
      Ascii(DirectLimit - 1) \o WideStop \o <<"a", "a">> }

\* summarize() on a transcript shorter than 8000 bytes: summarize_direct,
\* chunk_text is not called.
SummarizeShort ==
    /\ cpc = "idle"
    /\ Summarize

\* summarize() on a longer transcript: `chunk_text(text, 2000, 200)`.
SummarizeLong ==
    /\ wf.pc = "summarizing"
    /\ cpc = "idle"
    /\ text' \in LongTranscripts
    /\ max_tokens' = SummMaxTokens
    /\ overlap' = SummOverlap
    /\ start' = 0
    /\ chunks' = <<>>
    /\ cpc' = "call"
    /\ UNCHANGED <<summVars, vecVars, serverVars>>

\* chunk_text has returned: the chunk summaries, the reduce and the rest of
\* run_summarize_workflow.
SummarizeChunks ==
    /\ cpc = "done"
    /\ Summarize

\* The steps of the spawned task and of what it calls.
TaskSteps ==
    \/ FailNoFile
    \/ SttBegin
    \/ Transcribe
    \/ SttHistory
    \/ SummarizeBegin
    \/ SummarizeShort
    \/ SummarizeLong
    \/ ChunkTextCall
    \/ ChunkTextLoop
    \/ SummarizeChunks
    \/ SummarizeHistory
    \/ EmbedBegin
    \/ Embed
    \/ EmbedHistory
    \/ Finish
    \/ HandleResult

NextProc ==
    \/ \E a \in BOOLEAN, b \in BOOLEAN, c \in BOOLEAN, found \in BOOLEAN :
         Process(WorkflowOptions(a, b, c), found)
    \/ TaskSteps

\* A file that was uploaded and not processed yet: its record, no outputs.
InitProc ==
    /\ InitWf
    /\ records = <<HistoryRecordNew(FileUuid)>>
    /\ wfiles = OutputFiles("none", 0, "none", 0)

SpecProc == InitProc /\ [][NextProc]_vars

\* The spawned task is polled until it ends and every call it awaits
\* returns: it takes its next step whenever it has one.
FairSpecProc == SpecProc /\ WF_vars(TaskSteps)

\* C35: every task created by process eventually reaches Completed or
\* Failed, whatever the length of the transcript.
C35_TaskEnds == task.exists ~> (task.status \in {"Completed", "Failed"})

\* Every task ends unless its chunk_text call panicked or ran out of memory
\* in its loop: a transcript shorter than 8000 bytes, and one of exactly
\* 8000 bytes, which chunk_text returns as one chunk, do end.
TaskEndsUnlessChunkTextHangs ==
    task.exists ~> (\/ task.status \in {"Completed", "Failed"}
                    \/ cpc \in {"panic", "oom"})

====
